---- MODULE Spec2Model ----
(***************************************************************************)
(* A model of ui-controller-mcp's action-orchestration core:               *)
(*   utils/safety.py    SafetyGuard                                        *)
(*   utils/context.py   ContextTracker (the action history)                *)
(*   utils/security.py  CredentialManager (keyring + encrypted file)       *)
(*   skills/            SkillRegistry, SignalSendSkill, WhatsAppSendSkill  *)
(*   tools/handlers.py  ToolExecutor (execute, _execute_tool, handlers)    *)
(*                                                                         *)
(* Python str values are sequences of one-character strings, dict values   *)
(* are functions whose DOMAIN is the set of keys, Optional values are      *)
(* sequences of length 0 (None) or 1, and an f-string message is a record  *)
(* of its literal text and its interpolated argument.                      *)
(***************************************************************************)
EXTENDS Integers, Sequences, FiniteSets, TLC

VARIABLES
    history,                 \* ContextTracker._history
    max_history,             \* ContextTracker.max_history
    logged,                  \* every entry ever passed to _history.append, in order
    recent,                  \* value returned by the last direct get_recent_history
    clock,                   \* time.time()
    allowed_launch_targets,  \* SafetyGuard.allowed_launch_targets
    ai_client,               \* ToolExecutor.ai_client is not None
    keyring,                 \* system keyring: id -> secret
    data_file,               \* decrypted content of ~/.ui_controller_mcp_data
    last,                    \* the last execute call: arguments, outcome, trace
    ncalls,                  \* number of operations issued by the caller
    pc                       \* position of the calls in progress: each concurrent
                             \* log_action call, the loop of wait_for_image

vars == <<history, max_history, logged, recent, clock, allowed_launch_targets,
          ai_client, keyring, data_file, last, ncalls, pc>>

----------------------------------------------------------------------------
(* Bounds of the model                                                     *)

MaxCalls == 2       \* execute calls per run of the orchestrator
MaxLogs == 4        \* log_action / get_recent_history calls on a bare tracker
MaxCap == 2         \* largest max_history given to a bare ContextTracker
MaxClock == 1       \* largest value of the clock
MaxLimit == 2        \* largest |limit| passed to get_recent_history

DefaultMaxHistory == 50
DefaultLimit == 10

----------------------------------------------------------------------------
(* Python values                                                           *)

None == <<>>
Some(v) == <<v>>
IsNone(o) == Len(o) = 0
Val(o) == o[1]

EmptyDict == <<>>

\* dict.get(key, default)
Get(d, k, default) == IF k \in DOMAIN d THEN d[k] ELSE default

\* isinstance(v, dict): a dict is a function on its keys, which are strings;
\* a str or a list is a sequence, whose domain is 1..n. The empty dict and
\* the empty sequence (and None) are the same value <<>>
isinstance_dict(v) ==
    \/ DOMAIN v = {}
    \/ ToString(DOMAIN v) # ToString(1..Cardinality(DOMAIN v))

\* isinstance(v, bool): booleans are the only values written TRUE and FALSE
isinstance_bool(v) == ToString(v) \in {"TRUE", "FALSE"}

\* an f-string: literal text with one interpolated value
Msg(text, arg) == [text |-> text, arg |-> arg]

Whitespace == {" ", "\t", "\n"}

UpperChars == <<"A","B","C","D","E","F","G","H","I","J","K","L","M",
                "N","O","P","Q","R","S","T","U","V","W","X","Y","Z">>
LowerChars == <<"a","b","c","d","e","f","g","h","i","j","k","l","m",
                "n","o","p","q","r","s","t","u","v","w","x","y","z">>

LowerChar(c) ==
    IF \E i \in 1..Len(UpperChars) : UpperChars[i] = c
    THEN LowerChars[CHOOSE i \in 1..Len(UpperChars) : UpperChars[i] = c]
    ELSE c

\* str.lower()
lower(s) == [i \in 1..Len(s) |-> LowerChar(s[i])]

\* str.strip()
strip(s) ==
    LET keep == {i \in 1..Len(s) : s[i] \notin Whitespace}
    IN  IF keep = {} THEN <<>>
        ELSE SubSeq(s, CHOOSE i \in keep : \A j \in keep : i <= j,
                       CHOOSE i \in keep : \A j \in keep : j <= i)

\* the literal lit occurs in s starting at index i
LitAt(s, i, lit) ==
    /\ i >= 1
    /\ i + Len(lit) - 1 <= Len(s)
    /\ SubSeq(s, i, i + Len(lit) - 1) = lit

\* re.compile(head \s+ tail, re.IGNORECASE).search(s); tail = <<>> for a plain
\* literal pattern
search(pattern, s) ==
    LET t == lower(s)
        h == lower(pattern.head)
        u == lower(pattern.tail)
    IN  IF Len(u) = 0
        THEN \E i \in 1..Len(t) : LitAt(t, i, h)
        ELSE \E i \in 1..Len(t) : \E j \in (i + Len(h) + 1)..Len(t) :
                /\ LitAt(t, i, h)
                /\ \A k \in (i + Len(h))..(j - 1) : t[k] \in Whitespace
                /\ LitAt(t, j, u)

----------------------------------------------------------------------------
(* utils/safety.py                                                         *)

SafetyCheckResult(allowed, reason) == [allowed |-> allowed, reason |-> reason]

banned_patterns == <<
    [pattern |-> <<"r","m","\\","s","+","-","r","f">>,
     head |-> <<"r","m">>, tail |-> <<"-","r","f">>],
    [pattern |-> <<"s","h","u","t","d","o","w","n">>,
     head |-> <<"s","h","u","t","d","o","w","n">>, tail |-> <<>>],
    [pattern |-> <<"m","k","f","s">>,
     head |-> <<"m","k","f","s">>, tail |-> <<>>],
    [pattern |-> <<"f","o","r","m","a","t","\\","s","+","c",":">>,
     head |-> <<"f","o","r","m","a","t">>, tail |-> <<"c",":">>] >>

\* indices of the banned patterns that match the normalized input
Banned(normalized) ==
    {i \in 1..Len(banned_patterns) : search(banned_patterns[i], normalized)}

FirstBanned(normalized) ==
    CHOOSE i \in Banned(normalized) : \A j \in Banned(normalized) : i <= j

\* SafetyGuard.__init__: the allow-list is stored lower-cased
InitAllowList(targets) == {lower(t) : t \in targets}

\* validate_launch_target consulting the allow-list before the banned patterns
validate_launch_target_allow_first(allow, target) ==
    LET normalized == lower(strip(target))
    IN  IF allow # {} /\ normalized \in allow
        THEN SafetyCheckResult(TRUE, None)
        ELSE IF Banned(normalized) # {}
        THEN SafetyCheckResult(FALSE,
                Some(Msg("Launch target failed safety check: pattern '{}' disallowed",
                         banned_patterns[FirstBanned(normalized)].pattern)))
        ELSE IF allow # {}
        THEN SafetyCheckResult(FALSE,
                Some(Msg("Launch target is not on the allow list", <<>>)))
        ELSE SafetyCheckResult(TRUE, None)

validate_launch_target(allow, target) ==
    LET normalized == lower(strip(target))
    IN  IF Banned(normalized) # {}
        THEN SafetyCheckResult(FALSE,
                Some(Msg("Launch target failed safety check: pattern '{}' disallowed",
                         banned_patterns[FirstBanned(normalized)].pattern)))
        ELSE IF allow # {} /\ normalized \notin allow
        THEN SafetyCheckResult(FALSE,
                Some(Msg("Launch target is not on the allow list", <<>>)))
        ELSE SafetyCheckResult(TRUE, None)

validate_text(text) ==
    LET normalized == lower(strip(text))
    IN  IF Banned(normalized) # {}
        THEN SafetyCheckResult(FALSE, Some(Msg("Text input failed safety check", <<>>)))
        ELSE SafetyCheckResult(TRUE, None)

----------------------------------------------------------------------------
(* utils/context.py                                                        *)

ActionLog(timestamp, tool_name, params, result, success) ==
    [timestamp |-> timestamp, tool_name |-> tool_name, params |-> params,
     result |-> result, success |-> success]

\* dataclasses.asdict: a dict with one key per field of the dataclass
asdict(log) ==
    [f \in {"timestamp", "tool_name", "params", "result", "success"} |-> log[f]]

\* log_action with the trim step dropping the newest entry (pop() for pop(0))
Trim_pop_newest(h, cap) == IF Len(h) > cap THEN SubSeq(h, 1, Len(h) - 1) ELSE h

\* the buffer after log_action's trim step
Trim(h, cap) == IF Len(h) > cap THEN Tail(h) ELSE h

\* the entry log_action builds
NewLog(now, tool_name, params, result) ==
    ActionLog(now, tool_name, params, result,
              IF isinstance_dict(result) THEN Get(result, "success", FALSE) ELSE FALSE)

\* ContextTracker.log_action: the buffer after the call
log_action(h, cap, now, tool_name, params, result) ==
    Trim(Append(h, NewLog(now, tool_name, params, result)), cap)

\* list[start:] of Python, start possibly negative
SliceFrom(h, start) ==
    LET n == Len(h)
        s0 == IF start < 0 THEN start + n ELSE start
        s1 == IF s0 < 0 THEN 0 ELSE IF s0 > n THEN n ELSE s0
    IN  SubSeq(h, s1 + 1, n)

Reversed(s) == [i \in 1..Len(s) |-> s[Len(s) + 1 - i]]

\* get_recent_history slicing from the front (_history[:limit] for
\* _history[-limit:])
get_recent_history_from_front(h, limit) ==
    LET rec == Reversed(SubSeq(h, 1, IF limit < Len(h) THEN limit ELSE Len(h)))
    IN  [i \in 1..Len(rec) |-> asdict(rec[i])]

\* ContextTracker.get_recent_history
get_recent_history(h, limit) ==
    LET rec == Reversed(SliceFrom(h, 0 - limit))
    IN  [i \in 1..Len(rec) |-> asdict(rec[i])]

----------------------------------------------------------------------------
(* utils/security.py                                                       *)

\* keyring.get_password / dict.get on a store: None when the id is absent
Lookup(store, id) == IF id \in DOMAIN store THEN Some(store[id]) ELSE None

\* a Python value used as a condition: None and "" are falsy
Truthy(o) == ~IsNone(o) /\ Len(Val(o)) > 0

\* CredentialManager.set_credential: keyring first, encrypted file when the
\* keyring raises; env.keyring_ok / env.file_ok tell whether each backend works
set_credential(env, id, value) ==
    IF env.keyring_ok
    THEN [ok |-> TRUE, keyring |-> (id :> value) @@ keyring, data_file |-> data_file]
    ELSE IF env.file_ok
    THEN [ok |-> TRUE, keyring |-> keyring, data_file |-> (id :> value) @@ data_file]
    ELSE [ok |-> FALSE, keyring |-> keyring, data_file |-> data_file]

\* CredentialManager.get_credential
get_credential(env, id) ==
    IF env.keyring_ok /\ Truthy(Lookup(keyring, id))
    THEN Lookup(keyring, id)
    ELSE IF env.file_ok THEN Lookup(data_file, id) ELSE None

----------------------------------------------------------------------------
(* The desktop controller, the cognition service and the file system are   *)
(* external: what they answer during one execute call is the record env.   *)
(*   desk        outcomes of the successive controller calls               *)
(*   polls       outcomes of the successive find_template calls            *)
(*   ai          text returned by the AIClient                             *)
(*   fs          what the file system holds at the requested path          *)
(*   keyring_ok, file_ok, popen_ok, pyautogui   availability of a backend  *)

\* DesktopActionResult, or the exception the call raises
DesktopActionResult(success, message, data) ==
    [raises |-> "", success |-> success, message |-> message, data |-> data]
DesktopRaises(exc) ==
    [raises |-> exc, success |-> FALSE, message |-> Msg("", <<>>), data |-> None]

\* one event of a call's trace: which collaborator was invoked, and with what
Ev(comp, op, arg, ok, enter) ==
    [comp |-> comp, op |-> op, arg |-> arg, ok |-> ok, enter |-> enter]

\* what a handler hands back to execute: a result or an exception, the
\* collaborators it invoked, and the credential stores it leaves behind
Ret(result, trace) ==
    [raised |-> "", result |-> result, trace |-> trace,
     keyring |-> keyring, data_file |-> data_file]
Raise(exc, trace) ==
    [raised |-> exc, result |-> EmptyDict, trace |-> trace,
     keyring |-> keyring, data_file |-> data_file]

Fail(error) == [success |-> FALSE, error |-> error]

\* "message: {m}" with a message interpolated
Flat(m) == <<m.text>> \o m.arg

----------------------------------------------------------------------------
(* tools/handlers.py: the handlers                                         *)

\* _launch_app launching before it looks at the verdict
_launch_app_launch_first(params, env) ==
    LET target == strip(Get(params, "target", <<>>))
        check == validate_launch_target(allowed_launch_targets, target)
        g == Ev("guard", "validate_launch_target", target, check.allowed, None)
        result == env.desk[1]
        d == Ev("desktop", "launch_app", target, result.success, None)
    IN  IF ~check.allowed
        THEN Ret(Fail(Val(check.reason)), <<d, g>>)
        ELSE Ret([success |-> result.success, message |-> result.message,
                  data |-> result.data], <<d, g>>)

_launch_app(params, env) ==
    LET target == strip(Get(params, "target", <<>>))
        check == validate_launch_target(allowed_launch_targets, target)
        g == Ev("guard", "validate_launch_target", target, check.allowed, None)
        result == env.desk[1]
    IN  IF ~check.allowed
        THEN Ret(Fail(Val(check.reason)), <<g>>)
        ELSE Ret([success |-> result.success, message |-> result.message,
                  data |-> result.data],
                 <<g, Ev("desktop", "launch_app", target, result.success, None)>>)

_list_windows(env) ==
    LET result == env.desk[1]
        payload == [success |-> result.success, message |-> result.message]
        merged == IF ~IsNone(result.data) THEN Val(result.data) @@ payload ELSE payload
    IN  Ret(IF "windows" \notin DOMAIN merged THEN merged @@ ("windows" :> <<>>)
            ELSE merged,
            <<Ev("desktop", "list_windows", <<>>, result.success, None)>>)

_focus_window(params, env) ==
    LET title == Get(params, "title", <<>>)
        result == env.desk[1]
    IN  Ret([success |-> result.success, message |-> result.message],
            <<Ev("desktop", "focus_window", title, result.success, None)>>)

_click(params, env) ==
    LET result == env.desk[1]
    IN  Ret([success |-> result.success, message |-> result.message],
            <<Ev("desktop", "click", Get(params, "button", <<"l","e","f","t">>),
                 result.success, None)>>)

_type_text(params, env) ==
    LET text == Get(params, "text", <<>>)
        check == validate_text(text)
        g == Ev("guard", "validate_text", text, check.allowed, None)
        result == env.desk[1]
    IN  IF ~check.allowed
        THEN Ret(Fail(Val(check.reason)), <<g>>)
        ELSE Ret([success |-> result.success, message |-> result.message],
                 <<g, Ev("desktop", "type_text", text, result.success, None)>>)

_scroll(params, env) ==
    LET result == env.desk[1]
    IN  Ret([success |-> result.success, message |-> result.message],
            <<Ev("desktop", "scroll",
                 Get(params, "direction", <<"v","e","r","t","i","c","a","l">>),
                 result.success, None)>>)

_screenshot(env) ==
    LET result == env.desk[1]
        payload == [success |-> result.success, message |-> result.message]
    IN  Ret(IF ~IsNone(result.data) THEN Val(result.data) @@ payload ELSE payload,
            <<Ev("desktop", "screenshot", <<>>, result.success, None)>>)

----------------------------------------------------------------------------
(* base64.b64encode over bytes (integers 0..255)                           *)

B64Alphabet == <<
    "A","B","C","D","E","F","G","H","I","J","K","L","M","N","O","P",
    "Q","R","S","T","U","V","W","X","Y","Z","a","b","c","d","e","f",
    "g","h","i","j","k","l","m","n","o","p","q","r","s","t","u","v",
    "w","x","y","z","0","1","2","3","4","5","6","7","8","9","+","/">>

RECURSIVE b64encode(_)
b64encode(b) ==
    IF Len(b) = 0 THEN <<>>
    ELSE LET n == IF Len(b) >= 3 THEN 3 ELSE Len(b)
             v == b[1] * 65536 + (IF n >= 2 THEN b[2] ELSE 0) * 256
                              + (IF n >= 3 THEN b[3] ELSE 0)
         IN  << B64Alphabet[(v \div 262144) + 1],
                B64Alphabet[((v \div 4096) % 64) + 1],
                IF n >= 2 THEN B64Alphabet[((v \div 64) % 64) + 1] ELSE "=",
                IF n >= 3 THEN B64Alphabet[(v % 64) + 1] ELSE "=" >>
             \o b64encode(SubSeq(b, n + 1, Len(b)))

----------------------------------------------------------------------------
(* tools/handlers.py: files, perception, credentials                       *)

\* ToolExecutor.max_read_size, in bytes (5 MiB by default; the model gives the
\* executor a small limit so that files at and above it can be written out)
max_read_size == 4

\* Path(raw_path).expanduser().resolve(): relative paths are taken from the
\* working directory
resolve(raw_path) ==
    IF Len(raw_path) > 0 /\ raw_path[1] = "/" THEN raw_path ELSE <<"/","w","/">> \o raw_path

\* _get_bytes refusing a file whose size equals the limit (>= for >)
_get_bytes_limit_exclusive(params, env) ==
    LET raw_path == Get(params, "path", <<>>)
        path == resolve(raw_path)
        f == env.fs
        e1 == Ev("fs", "exists", path, f.exists, None)
        e2 == Ev("fs", "is_file", path, f.is_file, None)
        e3 == Ev("fs", "stat", path, f.stat_ok, None)
        e4 == Ev("fs", "read_bytes", path, f.read_ok, None)
    IN  IF Len(raw_path) = 0
        THEN Ret(Fail(Msg("File path is required", <<>>)), <<>>)
        ELSE IF ~f.exists
        THEN Ret(Fail(Msg("File not found: {}", path)), <<e1>>)
        ELSE IF ~f.is_file
        THEN Ret(Fail(Msg("Path is not a file: {}", path)), <<e1, e2>>)
        ELSE IF ~f.stat_ok
        THEN Ret(Fail(Msg("Unable to read file metadata: {}", <<>>)), <<e1, e2, e3>>)
        ELSE IF f.size >= max_read_size
        THEN Ret(Fail(Msg("File is too large to read safely (size={} bytes, limit={} bytes)",
                          <<>>)), <<e1, e2, e3>>)
        ELSE IF ~f.read_ok
        THEN Ret(Fail(Msg("Unable to read file: {}", <<>>)), <<e1, e2, e3, e4>>)
        ELSE Ret([success |-> TRUE,
                  message |-> Msg("File bytes encoded", <<>>),
                  data |-> Some([path |-> path, size |-> f.size,
                                 base64_data |-> b64encode(f.content)])],
                 <<e1, e2, e3, e4>>)

_get_bytes(params, env) ==
    LET raw_path == Get(params, "path", <<>>)
        path == resolve(raw_path)
        f == env.fs
        e1 == Ev("fs", "exists", path, f.exists, None)
        e2 == Ev("fs", "is_file", path, f.is_file, None)
        e3 == Ev("fs", "stat", path, f.stat_ok, None)
        e4 == Ev("fs", "read_bytes", path, f.read_ok, None)
    IN  IF Len(raw_path) = 0
        THEN Ret(Fail(Msg("File path is required", <<>>)), <<>>)
        ELSE IF ~f.exists
        THEN Ret(Fail(Msg("File not found: {}", path)), <<e1>>)
        ELSE IF ~f.is_file
        THEN Ret(Fail(Msg("Path is not a file: {}", path)), <<e1, e2>>)
        ELSE IF ~f.stat_ok
        THEN Ret(Fail(Msg("Unable to read file metadata: {}", <<>>)), <<e1, e2, e3>>)
        ELSE IF f.size > max_read_size
        THEN Ret(Fail(Msg("File is too large to read safely (size={} bytes, limit={} bytes)",
                          <<>>)), <<e1, e2, e3>>)
        ELSE IF ~f.read_ok
        THEN Ret(Fail(Msg("Unable to read file: {}", <<>>)), <<e1, e2, e3, e4>>)
        ELSE Ret([success |-> TRUE,
                  message |-> Msg("File bytes encoded", <<>>),
                  data |-> Some([path |-> path, size |-> f.size,
                                 base64_data |-> b64encode(f.content)])],
                 <<e1, e2, e3, e4>>)

\* `not x` for a str-valued dict entry that may be absent
Falsy(d, k) == k \notin DOMAIN d \/ Len(d[k]) = 0

\* AIClient.analyze_image / plan_action: the service's text, or a text that
\* describes the error
analyze_image(env) ==
    IF env.ai_ok THEN Msg("{}", env.ai_text)
    ELSE Msg("Error analyzing image: {}", env.ai_text)

plan_action(env) ==
    IF env.ai_ok THEN Msg("{}", env.ai_text)
    ELSE Msg("Error planning action: {}", env.ai_text)

\* _perceive turning an error text of the cognition service into a failure
_perceive_hard_failure(params, env) ==
    LET screenshot_result == env.desk[1]
        s == Ev("desktop", "screenshot", <<>>, screenshot_result.success, None)
        a == Ev("ai", "analyze_image", Get(params, "instruction", <<>>), env.ai_ok, None)
    IN  IF ~ai_client
        THEN Ret(Fail(Msg("AI capabilities not available", <<>>)), <<>>)
        ELSE IF \/ ~screenshot_result.success
                \/ IsNone(screenshot_result.data)
                \/ DOMAIN Val(screenshot_result.data) = {}
        THEN Ret(Fail(Msg("Failed to take screenshot: {}", Flat(screenshot_result.message))),
                 <<s>>)
        ELSE IF Falsy(Val(screenshot_result.data), "base64_data")
        THEN Ret(Fail(Msg("No base64 image data available from screenshot", <<>>)), <<s>>)
        ELSE IF ~env.ai_ok
        THEN Ret(Fail(analyze_image(env)), <<s, a>>)
        ELSE Ret([success |-> TRUE, message |-> Msg("Screen analyzed", <<>>),
                  analysis |-> analyze_image(env)], <<s, a>>)

\* _perceive without the check that the screenshot carries image data
_perceive_unchecked_image(params, env) ==
    LET screenshot_result == env.desk[1]
        s == Ev("desktop", "screenshot", <<>>, screenshot_result.success, None)
        a == Ev("ai", "analyze_image", Get(params, "instruction", <<>>), env.ai_ok, None)
    IN  IF ~ai_client
        THEN Ret(Fail(Msg("AI capabilities not available", <<>>)), <<>>)
        ELSE IF \/ ~screenshot_result.success
                \/ IsNone(screenshot_result.data)
                \/ DOMAIN Val(screenshot_result.data) = {}
        THEN Ret(Fail(Msg("Failed to take screenshot: {}", Flat(screenshot_result.message))),
                 <<s>>)
        ELSE Ret([success |-> TRUE, message |-> Msg("Screen analyzed", <<>>),
                  analysis |-> analyze_image(env)], <<s, a>>)

_perceive(params, env) ==
    LET screenshot_result == env.desk[1]
        s == Ev("desktop", "screenshot", <<>>, screenshot_result.success, None)
        a == Ev("ai", "analyze_image", Get(params, "instruction", <<>>), env.ai_ok, None)
    IN  IF ~ai_client
        THEN Ret(Fail(Msg("AI capabilities not available", <<>>)), <<>>)
        ELSE IF \/ ~screenshot_result.success
                \/ IsNone(screenshot_result.data)
                \/ DOMAIN Val(screenshot_result.data) = {}
        THEN Ret(Fail(Msg("Failed to take screenshot: {}", Flat(screenshot_result.message))),
                 <<s>>)
        ELSE IF Falsy(Val(screenshot_result.data), "base64_data")
        THEN Ret(Fail(Msg("No base64 image data available from screenshot", <<>>)), <<s>>)
        ELSE Ret([success |-> TRUE, message |-> Msg("Screen analyzed", <<>>),
                  analysis |-> analyze_image(env)], <<s, a>>)

_reason(params, env) ==
    IF ~ai_client
    THEN Ret(Fail(Msg("AI capabilities not available", <<>>)), <<>>)
    ELSE Ret([success |-> TRUE, message |-> Msg("Action planned", <<>>),
              plan |-> plan_action(env)],
             <<Ev("ai", "plan_action", Get(params, "goal", <<>>), env.ai_ok, None)>>)

_manage_credentials(params, env) ==
    LET action == Get(params, "action", <<>>)
        cred_id == Get(params, "id", <<>>)
        value == Get(params, "value", <<>>)
        set == set_credential(env, cred_id, value)
        got == get_credential(env, cred_id)
    IN  IF Len(cred_id) = 0
        THEN Ret(Fail(Msg("Credential ID required", <<>>)), <<>>)
        ELSE IF action = <<"s","e","t">>
        THEN IF Len(value) = 0
             THEN Ret(Fail(Msg("Value required for set action", <<>>)), <<>>)
             ELSE [raised |-> "",
                   result |-> IF set.ok
                              THEN [success |-> TRUE,
                                    message |-> Msg("Credential '{}' stored securely", cred_id)]
                              ELSE Fail(Msg("Failed to store credential", <<>>)),
                   trace |-> <<Ev("cred", "set_credential", cred_id, set.ok, None)>>,
                   keyring |-> set.keyring, data_file |-> set.data_file]
        ELSE IF action = <<"c","h","e","c","k">>
        THEN Ret([success |-> TRUE,
                  message |-> IF ~IsNone(got) THEN Msg("Credential '{}' exists", cred_id)
                              ELSE Msg("Credential '{}' does not exist", cred_id)],
                 <<Ev("cred", "get_credential", cred_id, ~IsNone(got), None)>>)
        ELSE Ret(Fail(Msg("Unknown action: {}", action)), <<>>)

\* _type_password handing the controller's message back on success too
_type_password_echo(params, env) ==
    LET cred_id == Get(params, "id", <<>>)
        enter == Get(params, "enter", TRUE)
        password == get_credential(env, cred_id)
        c == Ev("cred", "get_credential", cred_id, ~IsNone(password), None)
        result == env.desk[1]
    IN  IF ~Truthy(password)
        THEN Ret(Fail(Msg("Credential '{}' not found", cred_id)), <<c>>)
        ELSE IF result.raises # ""
        THEN Raise(result.raises, <<c>>)
        ELSE Ret(IF result.success
                 THEN [success |-> TRUE, message |-> Msg("Typed '{}'", Val(password))]
                 ELSE Fail(result.message),
                 <<c, Ev("desktop", "type_text", Val(password), result.success, Some(enter))>>)

_type_password(params, env) ==
    LET cred_id == Get(params, "id", <<>>)
        enter == Get(params, "enter", TRUE)
        password == get_credential(env, cred_id)
        c == Ev("cred", "get_credential", cred_id, ~IsNone(password), None)
        result == env.desk[1]
    IN  IF ~Truthy(password)
        THEN Ret(Fail(Msg("Credential '{}' not found", cred_id)), <<c>>)
        ELSE IF result.raises # ""
        THEN Raise(result.raises, <<c>>)
        ELSE Ret(IF result.success
                 THEN [success |-> TRUE, message |-> Msg("Password typed securely", <<>>)]
                 ELSE Fail(result.message),
                 <<c, Ev("desktop", "type_text", Val(password), result.success, Some(enter))>>)

_handle_sudo(params, env) ==
    _type_password(("id" :> <<"s","u","d","o","_","p","a","s","s">>) @@ ("enter" :> TRUE), env)

----------------------------------------------------------------------------
(* tools/handlers.py: image search, terminal, notifications                *)

DefaultTimeout == 10

\* one poll of the screen: poll.desk is the screenshot's outcome, poll.vision
\* what VisionEngine.find_template does with it, poll.dur the time it takes
_find_image(params, poll) ==
    LET template_path == Get(params, "template_path", <<>>)
        screenshot_result == poll.desk
        s == Ev("desktop", "screenshot", <<>>, screenshot_result.success, None)
        usable == ~Falsy(Val(screenshot_result.data), "base64_data")
        v == Ev("vision", "find_template", template_path,
                usable /\ ~poll.vision.raises, None)
    IN  IF Len(template_path) = 0
        THEN Ret(Fail(Msg("Template path required", <<>>)), <<>>)
        ELSE IF \/ ~screenshot_result.success
                \/ IsNone(screenshot_result.data)
                \/ DOMAIN Val(screenshot_result.data) = {}
        THEN Ret(Fail(Msg("Failed to take screenshot: {}", Flat(screenshot_result.message))),
                 <<s>>)
        ELSE IF ~usable \/ poll.vision.raises
        THEN Ret(Fail(Msg("Vision error: {}", <<>>)), <<s, v>>)
        ELSE Ret([success |-> TRUE,
                  message |-> Msg("Found {} matches", <<>>),
                  matches |-> poll.vision.matches], <<s, v>>)

\* the poll the i-th iteration of wait_for_image sees
PollAt(env, i) == env.polls[((i - 1) % Len(env.polls)) + 1]

\* the loop of _wait_for_image from its i-th iteration on; time is counted in
\* units of the 0.5 s sleep, timeout is in seconds
\* the loop of _wait_for_image polling once more when the timeout has just
\* elapsed (<= for <)
RECURSIVE WaitLoop_inclusive(_, _, _, _, _)
WaitLoop_inclusive(params, env, i, elapsed, trace) ==
    LET timeout == Get(params, "timeout", DefaultTimeout)
        poll == PollAt(env, i)
        r == _find_image(IF "template_path" \in DOMAIN params
                         THEN [template_path |-> params["template_path"]]
                         ELSE EmptyDict, poll)
    IN  IF elapsed <= 2 * timeout
        THEN IF Get(r.result, "success", FALSE) /\ Len(Get(r.result, "matches", <<>>)) > 0
             THEN Ret([success |-> TRUE, message |-> Msg("Image found", <<>>),
                       match |-> r.result.matches[1]], trace \o r.trace)
             ELSE WaitLoop_inclusive(params, env, i + 1, elapsed + poll.dur + 1,
                                     trace \o r.trace)
        ELSE Ret([success |-> FALSE,
                  message |-> Msg("Timeout waiting for image after {}s", <<>>)], trace)

RECURSIVE WaitLoop(_, _, _, _, _)
WaitLoop(params, env, i, elapsed, trace) ==
    LET timeout == Get(params, "timeout", DefaultTimeout)
        poll == PollAt(env, i)
        r == _find_image(IF "template_path" \in DOMAIN params
                         THEN [template_path |-> params["template_path"]]
                         ELSE EmptyDict, poll)
    IN  IF elapsed < 2 * timeout
        THEN IF Get(r.result, "success", FALSE) /\ Len(Get(r.result, "matches", <<>>)) > 0
             THEN Ret([success |-> TRUE, message |-> Msg("Image found", <<>>),
                       match |-> r.result.matches[1]], trace \o r.trace)
             ELSE WaitLoop(params, env, i + 1, elapsed + poll.dur + 1, trace \o r.trace)
        ELSE Ret([success |-> FALSE,
                  message |-> Msg("Timeout waiting for image after {}s", <<>>)], trace)

_wait_for_image(params, env) == WaitLoop(params, env, 1, 0, <<>>)

_run_terminal_cmd(params, env) ==
    LET command == Get(params, "command", <<>>)
        result == env.desk[1]
        t == Ev("desktop", "run_terminal_cmd", command, result.success, None)
    IN  IF Len(command) = 0
        THEN Ret(Fail(Msg("Command required", <<>>)), <<>>)
        ELSE IF result.raises # ""
        THEN Raise(result.raises, <<>>)
        ELSE IF IsNone(result.data)
        THEN Raise("AttributeError", <<t>>)
        ELSE Ret([success |-> result.success, message |-> result.message,
                  stdout |-> Get(Val(result.data), "stdout", <<>>),
                  stderr |-> Get(Val(result.data), "stderr", <<>>),
                  returncode |-> Get(Val(result.data), "returncode", -1)], <<t>>)

_check_notification(params, env) ==
    IF env.popen_ok
    THEN Ret([success |-> TRUE,
              message |-> Msg("Checked for notifications (basic implementation)", <<>>),
              found |-> FALSE, title |-> <<>>, body |-> <<>>],
             <<Ev("process", "dbus-monitor", <<>>, TRUE, None)>>)
    ELSE Ret(Fail(Msg("Failed to check notifications: {}", <<>>)),
             <<Ev("process", "dbus-monitor", <<>>, FALSE, None)>>)

----------------------------------------------------------------------------
(* skills/base.py, skills/messaging.py                                     *)

SignalName == <<"s","i","g","n","a","l",":","s","e","n","d">>
WhatsAppName == <<"w","h","a","t","s","a","p","p",":","s","e","n","d">>

\* SkillRegistry.register: re-registering a name overwrites
register(skills, name) == (name :> name) @@ skills

\* SkillRegistry.get_skill
get_skill(skills, name) == Lookup(skills, name)

\* the controller calls a skill makes one after the other, up to the first
\* one that raises: the events of the calls made, and the exception if any
RECURSIVE RunSteps(_, _, _, _)
RunSteps(steps, env, i, trace) ==
    IF i > Len(steps) THEN [raised |-> "", trace |-> trace]
    ELSE IF steps[i].op = "hotkey"
    THEN IF env.pyautogui = "ok"
         THEN RunSteps(steps, env, i + 1, trace)
         ELSE [raised |-> "Exception", trace |-> trace]
    ELSE IF env.desk[steps[i].at].raises # ""
    THEN [raised |-> env.desk[steps[i].at].raises, trace |-> trace]
    ELSE RunSteps(steps, env, i + 1,
                  Append(trace, Ev("desktop", steps[i].op, steps[i].arg,
                                   env.desk[steps[i].at].success, steps[i].enter)))

Step(op, arg, enter, at) == [op |-> op, arg |-> arg, enter |-> enter, at |-> at]

SkillOut(run, message) ==
    [raised |-> run.raised,
     result |-> [success |-> TRUE, message |-> message],
     trace |-> run.trace]

SkillMissing ==
    [raised |-> "",
     result |-> [success |-> FALSE, message |-> Msg("Missing contact or message", <<>>)],
     trace |-> <<>>]

SignalSendSkill_execute(params, env) ==
    LET contact == Get(params, "contact", <<>>)
        message == Get(params, "message", <<>>)
    IN  IF Len(contact) = 0 \/ Len(message) = 0 THEN SkillMissing
        ELSE SkillOut(RunSteps(<<Step("launch_app", <<"s","i","g","n","a","l","-","d","e","s","k","t","o","p">>, None, 1),
                                 Step("hotkey", <<"c","t","r","l","+","f">>, None, 0),
                                 Step("type_text", contact, Some(TRUE), 2),
                                 Step("type_text", message, Some(TRUE), 3)>>,
                               env, 1, <<>>),
                      Msg("Sent Signal message to {}", contact))

WhatsAppSendSkill_execute(params, env) ==
    LET contact == Get(params, "contact", <<>>)
        message == Get(params, "message", <<>>)
    IN  IF Len(contact) = 0 \/ Len(message) = 0 THEN SkillMissing
        ELSE SkillOut(RunSteps(<<Step("launch_app", <<"f","i","r","e","f","o","x">>, None, 1),
                                 Step("hotkey", <<"c","t","r","l","+","t">>, None, 0),
                                 Step("type_text", <<"w","e","b",".","w","h","a","t","s","a","p","p",".","c","o","m">>, Some(TRUE), 2),
                                 Step("hotkey", <<"c","t","r","l","+","a","l","t","+","/">>, None, 0),
                                 Step("type_text", contact, Some(TRUE), 3),
                                 Step("type_text", message, Some(TRUE), 4)>>,
                               env, 1, <<>>),
                      Msg("Sent WhatsApp message to {}", contact))

_use_skill(params, env) ==
    LET skills == register(register(EmptyDict, SignalName), WhatsAppName)
        skill_name == Get(params, "skill", <<>>)
        skill_params == Get(params, "params", EmptyDict)
        skill == get_skill(skills, skill_name)
        out == IF Val(skill) = SignalName
               THEN SignalSendSkill_execute(skill_params, env)
               ELSE WhatsAppSendSkill_execute(skill_params, env)
    IN  IF env.pyautogui = "missing"
        THEN Raise("ImportError", <<>>)
        ELSE IF Len(skill_name) = 0
        THEN Ret(Fail(Msg("Skill name required", <<>>)), <<>>)
        ELSE IF IsNone(skill)
        THEN Ret(Fail(Msg("Skill '{}' not found", skill_name)), <<>>)
        ELSE IF out.raised # ""
        THEN Ret(Fail(Msg("Skill execution failed: {}", <<out.raised>>)), out.trace)
        ELSE Ret(out.result, out.trace)

\* _get_agent_history reading the buffer after the call in flight was logged
_get_agent_history_logged_first(params) ==
    LET limit == Get(params, "limit", DefaultLimit)
        own == NewLog(clock, "get_agent_history", params, [success |-> TRUE])
    IN  Ret([success |-> TRUE,
             history |-> get_recent_history(Append(history, own), limit)], <<>>)

_get_agent_history(params) ==
    LET limit == Get(params, "limit", DefaultLimit)
    IN  Ret([success |-> TRUE, history |-> get_recent_history(history, limit)], <<>>)

----------------------------------------------------------------------------
(* tools/handlers.py: dispatch and execute                                 *)

\* number of parameters _list_windows declares besides self
ListWindowsArity == 0

\* `self._list_windows(params)`: binding one argument to the parameters the
\* method declares
Call_list_windows(params, env) ==
    IF ListWindowsArity = 1 THEN _list_windows(env) ELSE Raise("TypeError", <<>>)

ToolNames ==
    {"launch_app", "list_windows", "focus_window", "click", "type_text", "scroll",
     "drag", "get_screen_info", "screenshot", "get_bytes", "perceive", "reason",
     "manage_credentials", "type_password", "handle_sudo", "find_image",
     "wait_for_image", "run_terminal_cmd", "check_notification", "use_skill",
     "get_agent_history"}

_execute_tool(name, params, env) ==
    IF name = "launch_app" THEN _launch_app(params, env)
    ELSE IF name = "list_windows" THEN Call_list_windows(params, env)
    ELSE IF name = "focus_window" THEN _focus_window(params, env)
    ELSE IF name = "click" THEN _click(params, env)
    ELSE IF name = "type_text" THEN _type_text(params, env)
    ELSE IF name = "scroll" THEN _scroll(params, env)
    ELSE IF name = "drag"
    THEN Ret(Fail(Msg("Tool 'drag' not implemented yet.", <<>>)), <<>>)
    ELSE IF name = "get_screen_info"
    THEN Ret(Fail(Msg("Tool 'get_screen_info' not implemented yet.", <<>>)), <<>>)
    ELSE IF name = "screenshot" THEN _screenshot(env)
    ELSE IF name = "get_bytes" THEN _get_bytes(params, env)
    ELSE IF name = "perceive" THEN _perceive(params, env)
    ELSE IF name = "reason" THEN _reason(params, env)
    ELSE IF name = "manage_credentials" THEN _manage_credentials(params, env)
    ELSE IF name = "type_password" THEN _type_password(params, env)
    ELSE IF name = "handle_sudo" THEN _handle_sudo(params, env)
    ELSE IF name = "find_image" THEN _find_image(params, PollAt(env, 1))
    ELSE IF name = "wait_for_image" THEN _wait_for_image(params, env)
    ELSE IF name = "run_terminal_cmd" THEN _run_terminal_cmd(params, env)
    ELSE IF name = "check_notification" THEN _check_notification(params, env)
    ELSE IF name = "use_skill" THEN _use_skill(params, env)
    ELSE IF name = "get_agent_history" THEN _get_agent_history(params)
    ELSE Raise("ValueError: Unsupported tool", <<>>)

Redacted == <<"*","*","*">>

\* log_params of execute: a copy of params with the "password" entry masked
MaskParams(params) ==
    IF "password" \in DOMAIN params
    THEN [k \in DOMAIN params |-> IF k = "password" THEN Redacted ELSE params[k]]
    ELSE params

\* execute logging successful actions only
execute_log_successes_only(name, params, env) ==
    LET r == _execute_tool(name, params, env)
        log_params == MaskParams(params)
        skip == r.raised # "" \/ ~Get(r.result, "success", FALSE)
    IN  [raised |-> r.raised,
         result |-> r.result,
         trace |-> r.trace,
         keyring |-> r.keyring,
         data_file |-> r.data_file,
         history |-> IF skip THEN history
                     ELSE log_action(history, max_history, clock, name, log_params, r.result),
         logged |-> IF skip THEN logged
                    ELSE Append(logged, NewLog(clock, name, log_params, r.result))]

\* execute logging in a finally clause, also when _execute_tool raises
execute_log_in_finally(name, params, env) ==
    LET r == _execute_tool(name, params, env)
        log_params == MaskParams(params)
    IN  [raised |-> r.raised,
         result |-> r.result,
         trace |-> r.trace,
         keyring |-> r.keyring,
         data_file |-> r.data_file,
         history |-> log_action(history, max_history, clock, name, log_params, r.result),
         logged |-> Append(logged, NewLog(clock, name, log_params, r.result))]

\* ToolExecutor.execute: what the call leaves behind and hands to the caller.
\* An exception of _execute_tool leaves execute before the log step.
execute(name, params, env) ==
    LET r == _execute_tool(name, params, env)
        log_params == MaskParams(params)
    IN  [raised |-> r.raised,
         result |-> r.result,
         trace |-> r.trace,
         keyring |-> r.keyring,
         data_file |-> r.data_file,
         history |-> IF r.raised # "" THEN history
                     ELSE log_action(history, max_history, clock, name, log_params, r.result),
         logged |-> IF r.raised # "" THEN logged
                    ELSE Append(logged, NewLog(clock, name, log_params, r.result))]

----------------------------------------------------------------------------
(* What the caller passes and what the collaborators answer                *)

Gedit == <<"g","e","d","i","t">>
Code == <<"c","o","d","e">>
RmRf == <<" ","R","m"," "," ","-","R","F"," ","/">>
Hi == <<"H","i">>
Mkfs == <<"M","K","F","S"," ","/","d","e","v","/","s","d","a"," ">>
Secret == <<"h","u","n","t","e","r","2">>
SudoPass == <<"s","u","d","o","_","p","a","s","s">>
Pin == <<"p","i","n">>
TemplatePath == <<"o","k",".","p","n","g">>
FilePath == <<"f">>
Ls == <<"l","s">>
Bob == <<"B","o","b">>

DeskOK == DesktopActionResult(TRUE, Msg("done", <<>>), None)
DeskFailed == DesktopActionResult(FALSE, Msg("failed: {}", <<"n","o"," ","d","i","s","p","l","a","y">>), None)
ShotOK ==
    DesktopActionResult(TRUE, Msg("Screenshot captured", <<>>),
                        Some([path |-> <<"s",".","p","n","g">>, base64_data |-> <<"i","V","B","O">>]))
\* the no-op controller's screenshot carries no image data
ShotStub ==
    DesktopActionResult(TRUE, Msg("Screenshot capture not available", <<>>),
                        Some([platform |-> <<"L","i","n","u","x">>]))
TermOK ==
    DesktopActionResult(TRUE, Msg("Command executed", <<>>),
                        Some([stdout |-> <<"a",".","t","x","t">>, returncode |-> 0]))
TermFailed ==
    DesktopActionResult(FALSE, Msg("Command failed", <<>>),
                        Some([stderr |-> <<"n","o","t"," ","f","o","u","n","d">>, returncode |-> 127]))

Match(x, y, confidence) ==
    [x |-> x, y |-> y, w |-> 10, h |-> 10, center_x |-> x + 5, center_y |-> y + 5,
     confidence |-> confidence]

Poll(desk, raises, matches, dur) ==
    [desk |-> desk, vision |-> [raises |-> raises, matches |-> matches], dur |-> dur]

PollNone == Poll(ShotOK, FALSE, <<>>, 0)
PollSlow == Poll(ShotOK, FALSE, <<>>, 2)
PollOne == Poll(ShotOK, FALSE, <<Match(50, 50, 97)>>, 0)
PollTwo == Poll(ShotOK, FALSE, <<Match(50, 50, 97), Match(5, 5, 81)>>, 0)
PollError == Poll(ShotOK, TRUE, <<>>, 0)
PollBlind == Poll(DeskFailed, FALSE, <<>>, 0)
PollStub == Poll(ShotStub, FALSE, <<>>, 0)

File(exists, is_file, stat_ok, read_ok, content) ==
    [exists |-> exists, is_file |-> is_file, stat_ok |-> stat_ok, read_ok |-> read_ok,
     size |-> Len(content), content |-> content]

\* a file whose stat size is not the length of what a read returns: procfs
\* entries report st_size 0, and a file may grow between stat and read
ProcFile == [File(TRUE, TRUE, TRUE, TRUE, <<104, 105>>) EXCEPT !.size = 0]

Files ==
    { File(FALSE, FALSE, FALSE, FALSE, <<>>),
      File(TRUE, FALSE, TRUE, FALSE, <<>>),
      File(TRUE, TRUE, FALSE, FALSE, <<>>),
      File(TRUE, TRUE, TRUE, FALSE, <<104, 105>>),
      File(TRUE, TRUE, TRUE, TRUE, <<104, 105>>),
      File(TRUE, TRUE, TRUE, TRUE, [i \in 1..max_read_size |-> 250 + i]),
      File(TRUE, TRUE, TRUE, TRUE, [i \in 1..(max_read_size + 1) |-> i]),
      ProcFile }

DefaultEnv ==
    [desk |-> <<DeskOK, DeskOK, DeskOK, DeskOK>>,
     polls |-> <<PollNone>>,
     ai_ok |-> TRUE, ai_text |-> <<"a"," ","S","u","b","m","i","t"," ","b","u","t","t","o","n">>,
     fs |-> File(FALSE, FALSE, FALSE, FALSE, <<>>),
     keyring_ok |-> TRUE, file_ok |-> TRUE, popen_ok |-> TRUE, pyautogui |-> "ok"]

EnvDesk(d) == [DefaultEnv EXCEPT !.desk = <<d, DeskOK, DeskOK, DeskOK>>]

LaunchParams == {EmptyDict, [target |-> Gedit], [target |-> Code], [target |-> RmRf]}
TypeParams ==
    {EmptyDict, [text |-> Hi], [text |-> Mkfs], [text |-> Hi, enter |-> TRUE],
     [text |-> Hi, password |-> Secret]}
LimitParams == {EmptyDict} \cup {[limit |-> l] : l \in (0 - MaxLimit)..MaxLimit}

\* the deployments a run starts from: the guard's allow-list, whether an AI
\* client is configured, and what the credential stores hold from earlier runs
Profiles ==
    { [allow |-> {}, ai |-> TRUE, keyring |-> (SudoPass :> Secret), data_file |-> EmptyDict],
      [allow |-> {<<"G","e","d","i","t">>}, ai |-> FALSE, keyring |-> EmptyDict, data_file |-> EmptyDict] }

NoCall ==
    [name |-> "", params |-> EmptyDict, raised |-> "", result |-> EmptyDict,
     trace |-> <<>>, returned |-> FALSE]

----------------------------------------------------------------------------
(* The orchestrator: the caller issues execute calls one after the other   *)

Init ==
    /\ history = <<>>
    /\ max_history = DefaultMaxHistory
    /\ logged = <<>>
    /\ recent = <<>>
    /\ clock = 0
    /\ \E p \in Profiles :
          /\ allowed_launch_targets = InitAllowList(p.allow)
          /\ ai_client = p.ai
          /\ keyring = p.keyring
          /\ data_file = p.data_file
    /\ last = NoCall
    /\ ncalls = 0
    /\ pc = <<>>

Call(name, params, env) == [name |-> name, params |-> params, env |-> env]

\* one execute(name, params) call issued by the caller
Execute(name, params, env) ==
    \E out \in {execute(name, params, env)} :
        /\ ncalls' = ncalls + 1
        /\ pc' = pc
        /\ history' = out.history
        /\ logged' = out.logged
        /\ keyring' = out.keyring
        /\ data_file' = out.data_file
        /\ last' = [name |-> name, params |-> params, raised |-> out.raised,
                    result |-> out.result, trace |-> out.trace,
                    returned |-> (out.raised = "")]
        /\ UNCHANGED <<max_history, recent, clock, allowed_launch_targets, ai_client>>

LaunchAppCalls ==
    { Call("launch_app", p, EnvDesk(d)) :
      p \in LaunchParams, d \in {DeskOK, DeskFailed} }

ListWindowsCalls ==
    { Call("list_windows", EmptyDict, DefaultEnv) }

FocusWindowCalls ==
    { Call("focus_window", p, EnvDesk(d)) :
      p \in {EmptyDict, [title |-> Gedit]}, d \in {DeskOK, DeskFailed} }

ClickCalls ==
    { Call("click", EmptyDict, EnvDesk(d)) :
      d \in {DeskOK, DeskFailed} }

TypeTextCalls ==
    { Call("type_text", p, EnvDesk(d)) :
      p \in TypeParams, d \in {DeskOK, DeskFailed} }

ScrollCalls ==
    { Call("scroll", [amount |-> 3], EnvDesk(d)) :
      d \in {DeskOK, DeskFailed} }

DragCalls ==
    { Call("drag", EmptyDict, DefaultEnv) }

GetScreenInfoCalls ==
    { Call("get_screen_info", EmptyDict, DefaultEnv) }

ScreenshotCalls ==
    { Call("screenshot", EmptyDict, EnvDesk(d)) :
      d \in {ShotOK, ShotStub, DeskFailed} }

GetBytesCalls ==
    { Call("get_bytes", p, [DefaultEnv EXCEPT !.fs = f]) :
      p \in {EmptyDict, [path |-> FilePath]}, f \in Files }

PerceiveCalls ==
    { Call("perceive", [instruction |-> Hi],
                [EnvDesk(d) EXCEPT !.ai_ok = ok]) :
      d \in {ShotOK, ShotStub, DeskFailed}, ok \in BOOLEAN }

ReasonCalls ==
    { Call("reason", [goal |-> Hi], [DefaultEnv EXCEPT !.ai_ok = ok]) :
      ok \in BOOLEAN }

ManageCredentialsCalls ==
    { Call("manage_credentials", p,
                [DefaultEnv EXCEPT !.keyring_ok = b[1], !.file_ok = b[2]]) :
      p \in {[action |-> <<"s","e","t">>, value |-> Secret],
              [action |-> <<"s","e","t">>, id |-> Pin],
              [action |-> <<"s","e","t">>, id |-> Pin, value |-> Secret],
              [action |-> <<"c","h","e","c","k">>, id |-> SudoPass],
              [action |-> <<"g","e","t">>, id |-> SudoPass]},
       b \in {<<TRUE, TRUE>>, <<FALSE, TRUE>>, <<FALSE, FALSE>>} }

TypePasswordCalls ==
    { Call("type_password", p, EnvDesk(d)) :
      p \in {EmptyDict, [id |-> SudoPass], [id |-> Pin, enter |-> FALSE]},
       d \in {DeskOK, DeskFailed, DesktopRaises("TypeError")} }

HandleSudoCalls ==
    { Call("handle_sudo", EmptyDict, EnvDesk(d)) :
      d \in {DeskOK, DeskFailed, DesktopRaises("TypeError")} }

FindImageCalls ==
    { Call("find_image", p, [DefaultEnv EXCEPT !.polls = <<q>>]) :
      p \in {EmptyDict, [template_path |-> TemplatePath]},
       q \in {PollNone, PollOne, PollTwo, PollError, PollBlind, PollStub} }

WaitForImageCalls ==
    { Call("wait_for_image", p, [DefaultEnv EXCEPT !.polls = q]) :
      p \in {[template_path |-> TemplatePath, timeout |-> 0],
              [template_path |-> TemplatePath, timeout |-> 1],
              [timeout |-> 1]},
       q \in {<<PollTwo>>, <<PollNone, PollOne>>, <<PollSlow, PollOne>>,
              <<PollError, PollBlind>>} }

RunTerminalCmdCalls ==
    { Call("run_terminal_cmd", p, EnvDesk(d)) :
      p \in {EmptyDict, [command |-> Ls]},
       d \in {TermOK, TermFailed, DeskFailed, DesktopRaises("AttributeError")} }

CheckNotificationCalls ==
    { Call("check_notification", [timeout |-> 1],
                [DefaultEnv EXCEPT !.popen_ok = ok]) :
      ok \in BOOLEAN }

UseSkillCalls ==
    { Call("use_skill", p, e) :
      p \in {EmptyDict,
              [skill |-> <<"s","l","a","c","k",":","s","e","n","d">>],
              [skill |-> SignalName, params |-> [contact |-> Bob]],
              [skill |-> SignalName, params |-> [contact |-> Bob, message |-> Hi]],
              [skill |-> WhatsAppName, params |-> [contact |-> Bob, message |-> RmRf]]},
       e \in {DefaultEnv,
              [DefaultEnv EXCEPT !.pyautogui = "missing"],
              [DefaultEnv EXCEPT !.pyautogui = "fails"],
              [DefaultEnv EXCEPT !.desk = <<DeskOK, DesktopRaises("TypeError"),
                                            DeskOK, DeskOK>>]} }

GetAgentHistoryCalls ==
    { Call("get_agent_history", p, DefaultEnv) :
      p \in LimitParams }

UnknownToolCalls ==
    { Call(n, [target |-> Gedit], DefaultEnv) :
      n \in {"reboot", "LAUNCH_APP"} }

\* everything the caller may ask of execute, with what the collaborators answer
Calls ==
    UNION { LaunchAppCalls,
            ListWindowsCalls,
            FocusWindowCalls,
            ClickCalls,
            TypeTextCalls,
            ScrollCalls,
            DragCalls,
            GetScreenInfoCalls,
            ScreenshotCalls,
            GetBytesCalls,
            PerceiveCalls,
            ReasonCalls,
            ManageCredentialsCalls,
            TypePasswordCalls,
            HandleSudoCalls,
            FindImageCalls,
            WaitForImageCalls,
            RunTerminalCmdCalls,
            CheckNotificationCalls,
            UseSkillCalls,
            GetAgentHistoryCalls,
            UnknownToolCalls }

\* the caller issues one execute call
ExecuteCall ==
    /\ ncalls < MaxCalls
    /\ \E c \in Calls : Execute(c.name, c.params, c.env)

Next == ExecuteCall

Spec == Init /\ [][Next]_vars

----------------------------------------------------------------------------
(* An audit session: the caller launches, types, stores a credential and   *)
(* reads the history back                                                  *)

MaxAuditCalls == 3

AuditCalls ==
    UNION { { Call("launch_app", [target |-> t], DefaultEnv) : t \in {Gedit, RmRf} },
            { Call("type_text", p, DefaultEnv) :
              p \in {[text |-> Hi], [text |-> Hi, password |-> Secret]} },
            { Call("manage_credentials",
                   [action |-> <<"s","e","t">>, id |-> Pin, value |-> Secret], DefaultEnv) },
            GetAgentHistoryCalls }

AuditCall ==
    /\ ncalls < MaxAuditCalls
    /\ \E c \in AuditCalls : Execute(c.name, c.params, c.env)

NextAudit == AuditCall

SpecAudit == Init /\ [][NextAudit]_vars

----------------------------------------------------------------------------
(* A ContextTracker on its own: log_action and get_recent_history called   *)
(* directly, with any capacity                                             *)

LogInputs ==
    { [tool_name |-> n, params |-> EmptyDict, result |-> r] :
      n \in {"click", "scroll"},
      r \in { [success |-> TRUE, message |-> Msg("done", <<>>)],
              Fail(Msg("failed", <<>>)) } }

InitTracker ==
    /\ history = <<>>
    /\ max_history \in 0..MaxCap
    /\ logged = <<>>
    /\ recent = <<>>
    /\ clock = 0
    /\ allowed_launch_targets = {}
    /\ ai_client = FALSE
    /\ keyring = EmptyDict
    /\ data_file = EmptyDict
    /\ last = NoCall
    /\ ncalls = 0
    /\ pc = <<>>

LogAction ==
    /\ ncalls < MaxLogs
    /\ \E e \in LogInputs :
          /\ history' = log_action(history, max_history, clock,
                                   e.tool_name, e.params, e.result)
          /\ logged' = Append(logged, NewLog(clock, e.tool_name, e.params, e.result))
          /\ last' = [NoCall EXCEPT !.name = "log_action", !.params = e.params,
                                    !.result = e.result, !.returned = TRUE]
    /\ ncalls' = ncalls + 1
    /\ pc' = pc
    /\ UNCHANGED <<max_history, recent, clock, allowed_launch_targets, ai_client,
                   keyring, data_file>>

GetRecentHistory ==
    /\ ncalls < MaxLogs
    /\ \E limit \in (0 - MaxLimit)..MaxLimit :
          /\ recent' = get_recent_history(history, limit)
          /\ last' = [NoCall EXCEPT !.name = "get_recent_history",
                                    !.params = [limit |-> limit], !.returned = TRUE]
    /\ ncalls' = ncalls + 1
    /\ pc' = pc
    /\ UNCHANGED <<history, max_history, logged, clock, allowed_launch_targets,
                   ai_client, keyring, data_file>>

\* time passes
Tick ==
    /\ clock < MaxClock
    /\ clock' = clock + 1
    /\ UNCHANGED <<history, max_history, logged, recent, allowed_launch_targets,
                   ai_client, keyring, data_file, last, ncalls, pc>>

NextTracker == LogAction \/ GetRecentHistory \/ Tick

SpecTracker == InitTracker /\ [][NextTracker]_vars

----------------------------------------------------------------------------
(* Properties                                                              *)

Min(a, b) == IF a <= b THEN a ELSE b

\* the step is one execute call
IsCall == ncalls' = ncalls + 1

\* positions of the trace at which the desktop controller's op is invoked
DesktopOps(trace, op) ==
    {i \in DOMAIN trace : trace[i].comp = "desktop" /\ trace[i].op = op}

LastTarget == strip(Get(last.params, "target", <<>>))
LastText == Get(last.params, "text", <<>>)
LastLimit == Get(last.params, "limit", DefaultLimit)

\* C1: a launch_app call whose trimmed target the guard rejects, and a
\* type_text call whose text the guard rejects, return {success: false,
\* error: the verdict's reason} and never invoke the controller's launch_app /
\* type_text; for "rm -rf /" the error says the pattern is disallowed.
C1_RejectedInputNeverReachesDesktop ==
    /\ last.name = "launch_app"
       => \A check \in {validate_launch_target(allowed_launch_targets, LastTarget)} :
             ~check.allowed
             => /\ last.returned
                /\ last.result = [success |-> FALSE, error |-> Val(check.reason)]
                /\ DesktopOps(last.trace, "launch_app") = {}
                /\ (Get(last.params, "target", <<>>) = RmRf
                    => last.result.error.text =
                          "Launch target failed safety check: pattern '{}' disallowed")
    /\ last.name = "type_text"
       => \A check \in {validate_text(LastText)} :
             ~check.allowed
             => /\ last.returned
                /\ last.result = [success |-> FALSE, error |-> Val(check.reason)]
                /\ DesktopOps(last.trace, "type_text") = {}

C1_Witness ==
    /\ last.name = "launch_app"
    /\ Get(last.params, "target", <<>>) = RmRf
    /\ last.returned
    /\ ~last.result.success
    /\ last.trace # <<>>

\* the guard function that vouches for an input of the controller's op
GuardFor(op) == IF op = "launch_app" THEN "validate_launch_target" ELSE "validate_text"

\* C2: in every execute call other than type_password / handle_sudo, each
\* target handed to the controller's launch_app and each text handed to its
\* type_text was allowed by the guard's check for it earlier in the call.
C2_DesktopInputsPassedGuard ==
    last.name \notin {"type_password", "handle_sudo"}
    => \A i \in DOMAIN last.trace :
          (last.trace[i].comp = "desktop" /\ last.trace[i].op \in {"launch_app", "type_text"})
          => \E j \in 1..(i - 1) :
                /\ last.trace[j].comp = "guard"
                /\ last.trace[j].op = GuardFor(last.trace[i].op)
                /\ last.trace[j].arg = last.trace[i].arg
                /\ last.trace[j].ok

\* C3: an execute call that returns a result appends exactly one entry, whose
\* tool name is the call's name and whose result is the returned result;
\* the polls of wait_for_image and the type_password step of handle_sudo
\* append nothing of their own.
C3_OneEntryPerReturnedCall ==
    [][(IsCall /\ last'.returned)
       => /\ Len(logged') = Len(logged) + 1
          /\ SubSeq(logged', 1, Len(logged)) = logged
          /\ logged'[Len(logged')].tool_name = last'.name
          /\ logged'[Len(logged')].result = last'.result
          /\ history' = Trim(Append(history, logged'[Len(logged')]), max_history)]_vars

C3_Witness ==
    /\ last.name = "wait_for_image"
    /\ last.returned
    /\ Cardinality(DesktopOps(last.trace, "screenshot")) >= 2
    /\ ncalls = 2
    /\ Len(history) = 2
    /\ ~history[1].success

\* C4: execute with a name outside the dispatch table raises "Unsupported
\* tool", invokes no collaborator and leaves the history and the credential
\* stores as they were.
C4_UnknownToolRaises ==
    [][(IsCall /\ last'.name \notin ToolNames)
       => /\ last'.raised = "ValueError: Unsupported tool"
          /\ ~last'.returned
          /\ last'.trace = <<>>
          /\ history' = history
          /\ logged' = logged
          /\ keyring' = keyring
          /\ data_file' = data_file]_vars

C4_Witness ==
    /\ last.name = "reboot"
    /\ last.raised # ""
    /\ ncalls = 2
    /\ Len(history) = 1

\* C5: execute with a name of the dispatch table always returns an
\* ActionResult-shaped mapping and never raises.
C5_KnownToolsAlwaysReturn ==
    last.name \in ToolNames
    => /\ last.returned
       /\ "success" \in DOMAIN last.result
       /\ last.result.success \in BOOLEAN

\* C6: after k log calls on a history of capacity N the buffer holds exactly
\* the last min(k, N) logged entries in append order (never more than N, the
\* oldest evicted first).
C6_BufferHoldsLastN ==
    /\ Len(history) = Min(Len(logged), max_history)
    /\ history = SubSeq(logged, Len(logged) - Len(history) + 1, Len(logged))

C6_Witness ==
    /\ max_history = 2
    /\ Len(logged) = 4
    /\ logged[2] # logged[3]

\* the entries get_recent_history(limit) is to return for limit >= 1: the
\* min(limit, size) newest ones, newest first
NewestFirst(h, limit) ==
    [i \in 1..Min(limit, Len(h)) |-> asdict(h[Len(h) + 1 - i])]

\* C7 as stated: for limit >= 1 get_recent_history returns the min(limit, size)
\* most recently appended entries, newest first, and after a log call
\* get_recent_history(1) returns the just-logged entry as the sole element.
C7_RecentNewestFirst_AnyCapacity ==
    (last.name = "get_recent_history" /\ last.params.limit >= 1)
    => /\ recent = NewestFirst(history, last.params.limit)
       /\ (last.params.limit = 1 /\ Len(logged) >= 1)
          => recent = <<asdict(logged[Len(logged)])>>

\* C7 amended: for limit >= 1 get_recent_history returns the min(limit, size)
\* most recently appended entries, newest first; after a log call
\* get_recent_history(1) returns the just-logged entry as the sole element
\* when the capacity is at least 1 (a tracker of capacity 0 keeps nothing).
C7_RecentNewestFirst ==
    (last.name = "get_recent_history" /\ last.params.limit >= 1)
    => /\ recent = NewestFirst(history, last.params.limit)
       /\ (last.params.limit = 1 /\ Len(logged) >= 1 /\ max_history >= 1)
          => recent = <<asdict(logged[Len(logged)])>>

C7_Witness ==
    /\ last.name = "get_recent_history"
    /\ last.params.limit = 2
    /\ Len(history) = 2
    /\ Len(recent) = 2
    /\ recent[1] # recent[2]
    /\ Len(logged) = 3

\* C8: get_recent_history(limit) is empty for every limit <= 0, and so is the
\* history returned by execute("get_agent_history", {limit}).
C8_NonPositiveLimitIsEmpty ==
    /\ (last.name = "get_recent_history" /\ last.params.limit <= 0) => recent = <<>>
    /\ (last.name = "get_agent_history" /\ LastLimit <= 0) => last.result.history = <<>>

\* C9: get_agent_history returns entries of the calls completed before it,
\* newest first from the newest on (min(limit, size) of them for a limit
\* >= 1), none of them for the call in flight; its own entry is appended
\* after its result is computed.
C9_HistoryExcludesCallInFlight ==
    [][(IsCall /\ last'.name = "get_agent_history")
       => /\ Len(last'.result.history) <= Len(history)
          /\ (Get(last'.params, "limit", DefaultLimit) >= 1
              => Len(last'.result.history) =
                    Min(Get(last'.params, "limit", DefaultLimit), Len(history)))
          /\ \A i \in 1..Len(last'.result.history) :
                last'.result.history[i] = asdict(history[Len(history) + 1 - i])
          /\ Len(history') = Len(history) + 1
          /\ history'[Len(history')].tool_name = "get_agent_history"
          /\ history'[Len(history')].result = last'.result]_vars

C9_Witness ==
    /\ last.name = "get_agent_history"
    /\ Len(history) = 3
    /\ history[1].tool_name = "type_text"
    /\ history[2].tool_name = "launch_app"
    /\ Len(last.result.history) = 2
    /\ last.result.history[1].tool_name = "launch_app"
    /\ last.result.history[2].tool_name = "type_text"

\* C10: the params kept in a history entry have every credential-shaped value
\* (a "password" parameter, the "value" of manage_credentials) replaced by the
\* redaction marker, so no secret can be read back through get_agent_history.
C10_SecretsMaskedInHistory ==
    \A i \in 1..Len(history) :
        \A k \in DOMAIN history[i].params \cap {"password", "value"} :
            history[i].params[k] = Redacted

\* sub occurs in the string s
Contains(s, sub) ==
    \E i \in 0..(Len(s) - Len(sub)) : SubSeq(s, i + 1, i + Len(sub)) = sub

\* the secrets the credential stores hold
StoredSecrets == {keyring[k] : k \in DOMAIN keyring} \cup {data_file[k] : k \in DOMAIN data_file}

\* a result of type_password: a confirmation or an error message and nothing
\* else, with no stored secret in it
NoSecretIn(result) ==
    /\ DOMAIN result \in {{"success", "message"}, {"success", "error"}}
    /\ \A k \in DOMAIN result \ {"success"} :
          \A secret \in StoredSecrets : ~Contains(result[k].arg, secret)

----------------------------------------------------------------------------
(* The guard alone: verdicts of a SafetyGuard on launch targets and texts  *)

MaxGuardCalls == 2  \* validate calls per run of a bare SafetyGuard

\* targets and texts handed to the guard
GuardInputs ==
    {<<"r","m"," ","-","r","f"," ","/">>,
      <<" ","R","m"," "," ","-","R","F"," ","/">>,
      <<"r","m","-","r","f">>,
      <<"r","m","\t","-","r","f">>,
      <<"r","m"," ","-","r"," ","f">>,
      <<"x","r","m"," ","\n","-","r","f","x">>,
      <<"s","h","u","t","d","o","w","n">>,
      <<"S","H","U","T","D","O","W","N"," ","n","o","w">>,
      <<"s","h","u","t"," ","d","o","w","n">>,
      <<"M","K","F","S"," ","/","d","e","v","/","s","d","a"," ">>,
      <<"m","k"," ","f","s">>,
      <<"f","o","r","m","a","t"," ","c",":">>,
      <<"F","o","r","m","a","t"," ","\t"," ","C",":">>,
      <<"f","o","r","m","a","t","c",":">>,
      <<"f","o","r","m","a","t"," ","d",":">>,
      <<"g","e","d","i","t">>,
      <<" ","G","e","d","i","t","\n">>,
      <<"c","o","d","e">>,
      <<"h","e","l","l","o"," ","w","o","r","l","d">>,
      <<>>,
      <<" ","\t">>}

\* allow-lists a SafetyGuard is constructed with
AllowLists ==
    { {},
      {<<"G","e","d","i","t">>, <<"c","o","d","e">>},
      {<<"g","e","d","i","t">>, <<"R","M"," ","-","R","F"," ","/">>} }

InitGuard ==
    /\ history = <<>>
    /\ max_history = DefaultMaxHistory
    /\ logged = <<>>
    /\ recent = <<>>
    /\ clock = 0
    /\ allowed_launch_targets \in {InitAllowList(a) : a \in AllowLists}
    /\ ai_client = FALSE
    /\ keyring = EmptyDict
    /\ data_file = EmptyDict
    /\ last = NoCall
    /\ ncalls = 0
    /\ pc = <<>>

ValidateLaunchTarget ==
    /\ ncalls < MaxGuardCalls
    /\ \E target \in GuardInputs :
          last' = [NoCall EXCEPT !.name = "validate_launch_target",
                                 !.params = [target |-> target],
                                 !.result = validate_launch_target(allowed_launch_targets, target),
                                 !.returned = TRUE]
    /\ ncalls' = ncalls + 1
    /\ pc' = pc
    /\ UNCHANGED <<history, max_history, logged, recent, clock, allowed_launch_targets,
                   ai_client, keyring, data_file>>

ValidateText ==
    /\ ncalls < MaxGuardCalls
    /\ \E text \in GuardInputs :
          last' = [NoCall EXCEPT !.name = "validate_text",
                                 !.params = [text |-> text],
                                 !.result = validate_text(text),
                                 !.returned = TRUE]
    /\ ncalls' = ncalls + 1
    /\ pc' = pc
    /\ UNCHANGED <<history, max_history, logged, recent, clock, allowed_launch_targets,
                   ai_client, keyring, data_file>>

NextGuard == ValidateLaunchTarget \/ ValidateText

SpecGuard == InitGuard /\ [][NextGuard]_vars

\* the string s holds "rm", one or more whitespace characters, "-rf"; or
\* "shutdown"; or "mkfs"; or "format", one or more whitespace characters, "c:"
HasGap(s, left, right) ==
    \E i \in 1..Len(s) : \E n \in 1..Len(s) :
        /\ i + Len(left) + n + Len(right) - 1 <= Len(s)
        /\ SubSeq(s, i, i + Len(left) - 1) = left
        /\ \A k \in (i + Len(left))..(i + Len(left) + n - 1) : s[k] \in {" ", "\t", "\n"}
        /\ SubSeq(s, i + Len(left) + n, i + Len(left) + n + Len(right) - 1) = right

MatchesBannedPattern(s) ==
    \/ HasGap(s, <<"r","m">>, <<"-","r","f">>)
    \/ Contains(s, <<"s","h","u","t","d","o","w","n">>)
    \/ Contains(s, <<"m","k","f","s">>)
    \/ HasGap(s, <<"f","o","r","m","a","t">>, <<"c",":">>)

\* C12: validate_text rejects exactly the texts whose trimmed, lower-cased
\* form matches a banned pattern, whatever the allow-list; and
\* validate_launch_target rejects exactly the targets that match a banned
\* pattern or are missing from a non-empty allow-list (a banned pattern
\* rejects an allow-listed target too). The same input under the same
\* configuration gets the same verdict on every call.
C12_GuardVerdicts ==
    /\ [](/\ last.name = "validate_text"
             => (~last.result.allowed
                    <=> MatchesBannedPattern(lower(strip(last.params.text))))
          /\ last.name = "validate_launch_target"
             => (~last.result.allowed
                    <=> \/ MatchesBannedPattern(lower(strip(last.params.target)))
                        \/ /\ allowed_launch_targets # {}
                           /\ lower(strip(last.params.target)) \notin allowed_launch_targets))
    /\ [][(last'.name = last.name /\ last'.params = last.params)
            => last'.result = last.result]_vars

C12_Witness ==
    /\ last.name = "validate_launch_target"
    /\ last.params.target = <<"r","m"," ","-","r","f"," ","/">>
    /\ lower(strip(last.params.target)) \in allowed_launch_targets
    /\ ~last.result.allowed
    /\ ncalls = 2

\* C13: every result execute returns with success = false has its error
\* field set and carries no data field.
C13_FailureHasErrorNoData ==
    (last.returned /\ "success" \in DOMAIN last.result /\ ~last.result.success)
    => /\ "error" \in DOMAIN last.result
       /\ "data" \notin DOMAIN last.result

\* the parameter each of these tools requires
RequiredParam ==
    [launch_app |-> "target", type_text |-> "text", focus_window |-> "title",
     get_bytes |-> "path", find_image |-> "template_path",
     wait_for_image |-> "template_path", run_terminal_cmd |-> "command",
     manage_credentials |-> "id"]

\* C14: a call that omits its required parameter returns {success: false,
\* error: ...} and invokes no desktop-controller, file-system,
\* credential-store or cognition operation.
C14_MissingParamIsRejected ==
    (last.name \in DOMAIN RequiredParam /\ RequiredParam[last.name] \notin DOMAIN last.params)
    => /\ last.returned
       /\ DOMAIN last.result = {"success", "error"}
       /\ ~last.result.success
       /\ \A i \in DOMAIN last.trace :
             last.trace[i].comp \notin {"desktop", "fs", "cred", "ai", "vision"}

----------------------------------------------------------------------------
(* Perception, image search and file reads, with what the collaborators    *)
(* answered during the call kept next to the call's outcome                *)

MaxEnvCalls == 2    \* execute calls per run with the environment kept

\* a screenshot that succeeds with no data at all, and one with empty data
ShotBare == DesktopActionResult(TRUE, Msg("Screenshot captured", <<>>), None)
ShotEmpty ==
    DesktopActionResult(TRUE, Msg("Screenshot captured", <<>>),
                        Some([path |-> <<"s",".","p","n","g">>, base64_data |-> <<>>]))

EnvCalls ==
    UNION { PerceiveCalls,
            { Call("perceive", EmptyDict, EnvDesk(d)) : d \in {ShotBare, ShotEmpty} },
            FindImageCalls,
            WaitForImageCalls,
            GetBytesCalls }

\* one execute(name, params) call, the environment's answers kept in last.env
ExecuteIn(name, params, env) ==
    \E out \in {execute(name, params, env)} :
        /\ ncalls' = ncalls + 1
        /\ pc' = pc
        /\ history' = out.history
        /\ logged' = out.logged
        /\ keyring' = out.keyring
        /\ data_file' = out.data_file
        /\ last' = [name |-> name, params |-> params, raised |-> out.raised,
                    result |-> out.result, trace |-> out.trace,
                    returned |-> (out.raised = ""), env |-> env]
        /\ UNCHANGED <<max_history, recent, clock, allowed_launch_targets, ai_client>>

EnvCall ==
    /\ ncalls < MaxEnvCalls
    /\ \E c \in EnvCalls : ExecuteIn(c.name, c.params, c.env)

NextEnv == EnvCall

SpecEnv == Init /\ [][NextEnv]_vars

\* positions of the trace at which a collaborator of kind comp is invoked
Ops(trace, comp) == {i \in DOMAIN trace : trace[i].comp = comp}

\* the screenshot carries no image data
NoImageData(shot) ==
    \/ IsNone(shot.data)
    \/ "base64_data" \notin DOMAIN Val(shot.data)
    \/ Len(Val(shot.data).base64_data) = 0

\* C15: perceive requests the screenshot before it calls the cognition
\* service, and does not call the service when no AI client is configured,
\* the screenshot fails or the screenshot carries no image data; each of
\* these cases returns success = false with an error.
C15_PerceiveScreenshotFirst ==
    last.name = "perceive"
    => \A shot \in {last.env.desk[1]} :
          /\ \A a \in Ops(last.trace, "ai") :
                \E s \in DesktopOps(last.trace, "screenshot") : s < a
          /\ (~ai_client \/ ~shot.success \/ NoImageData(shot))
             => /\ Ops(last.trace, "ai") = {}
                /\ last.returned
                /\ DOMAIN last.result = {"success", "error"}
                /\ ~last.result.success

C15_Witness ==
    /\ last.name = "perceive"
    /\ ai_client
    /\ last.env.desk[1] = ShotStub
    /\ DesktopOps(last.trace, "screenshot") # {}
    /\ ~last.result.success

\* the time (in units of the 0.5 s sleep) at which the i-th poll of a
\* wait_for_image call would start
RECURSIVE PollStart(_, _)
PollStart(env, i) ==
    IF i = 1 THEN 0 ELSE PollStart(env, i - 1) + PollAt(env, i - 1).dur + 1

\* the i-th poll's find_image is successful and non-empty
PollHits(params, env, i) ==
    \A poll \in {PollAt(env, i)} :
        /\ "template_path" \in DOMAIN params
        /\ poll.desk.success
        /\ ~NoImageData(poll.desk)
        /\ ~poll.vision.raises
        /\ poll.vision.matches # <<>>

\* the polls of a call that start before the timeout has elapsed
PollsInTime(params, env) ==
    {i \in 1..(2 * params.timeout) : PollStart(env, i) < 2 * params.timeout}

\* the highest-confidence match of a poll
BestMatch(matches) ==
    CHOOSE m \in {matches[k] : k \in DOMAIN matches} :
        \A k \in DOMAIN matches : m.confidence >= matches[k].confidence

\* C16: wait_for_image returns {success: true, match: m}, m the
\* highest-confidence match of the first poll whose find_image result is
\* successful and non-empty; when no poll started before the timeout has a
\* match it returns (never raises) the timeout result, success = false with a
\* message and no error field, unlike a failure result.
C16_WaitReturnsBestOfFirstHit ==
    last.name = "wait_for_image"
    => \A hits \in {{i \in PollsInTime(last.params, last.env) :
                        PollHits(last.params, last.env, i)}} :
          /\ last.returned
          /\ hits # {}
             => \E f \in hits :
                   /\ \A i \in hits : f <= i
                   /\ last.result.success
                   /\ last.result.match = BestMatch(PollAt(last.env, f).vision.matches)
          /\ hits = {}
             => /\ DOMAIN last.result = {"success", "message"}
                /\ ~last.result.success
                /\ last.result.message.text = "Timeout waiting for image after {}s"

C16_Witness ==
    /\ last.name = "wait_for_image"
    /\ last.env.polls = <<PollNone, PollOne>>
    /\ last.result.success
    /\ last.result.match = Match(50, 50, 97)
    /\ Cardinality(DesktopOps(last.trace, "screenshot")) = 2

\* the value of a base64 digit
B64Value(c) == (CHOOSE i \in 1..64 : B64Alphabet[i] = c) - 1

\* base64 decoding of padded text
RECURSIVE b64decode(_)
b64decode(t) ==
    IF Len(t) < 4 THEN <<>>
    ELSE LET pad == Cardinality({i \in 3..4 : t[i] = "="})
             v == B64Value(t[1]) * 262144 + B64Value(t[2]) * 4096
                  + (IF pad < 2 THEN B64Value(t[3]) * 64 ELSE 0)
                  + (IF pad < 1 THEN B64Value(t[4]) ELSE 0)
             bytes == <<v \div 65536, (v \div 256) % 256, v % 256>>
         IN  SubSeq(bytes, 1, 3 - pad) \o b64decode(SubSeq(t, 5, Len(t)))

\* the requested path names a regular file that can be read and whose size
\* is within the limit
ReadableFile ==
    /\ last.name = "get_bytes"
    /\ Len(Get(last.params, "path", <<>>)) > 0
    /\ last.env.fs.exists
    /\ last.env.fs.is_file
    /\ last.env.fs.stat_ok
    /\ last.env.fs.read_ok
    /\ last.env.fs.size <= max_read_size

\* C17: for a readable regular file whose size is within the limit get_bytes
\* returns success = true, data.base64_data decoding to exactly the file's
\* bytes, data.size equal to the byte length of that content and data.path
\* equal to the resolved absolute path.
C17_GetBytesRoundTrip ==
    ReadableFile
    => /\ last.returned
       /\ last.result.success
       /\ b64decode(Val(last.result.data).base64_data) = last.env.fs.content
       /\ Val(last.result.data).size = Len(last.env.fs.content)
       /\ Val(last.result.data).path = resolve(last.params.path)
       /\ Val(last.result.data).path[1] = "/"

\* C18: get_bytes reads the content only after the path is non-empty, exists,
\* is a regular file and has a stat size within max_read_size (a file of
\* exactly the limit is read in full); a missing file gives a "File not
\* found" error, a file above the limit a size-limit error, and no failing
\* outcome carries file data.
C18_GetBytesChecksBeforeRead ==
    last.name = "get_bytes"
    => \A f \in {last.env.fs} :
          /\ last.returned
          /\ Ops(last.trace, "fs") # {}
             => Len(Get(last.params, "path", <<>>)) > 0
          /\ (\E i \in Ops(last.trace, "fs") : last.trace[i].op = "read_bytes")
             => /\ f.exists /\ f.is_file /\ f.stat_ok /\ f.size <= max_read_size
                /\ \E i, j, k, l \in Ops(last.trace, "fs") :
                      /\ i < j /\ j < k /\ k < l
                      /\ last.trace[i].op = "exists"
                      /\ last.trace[j].op = "is_file"
                      /\ last.trace[k].op = "stat"
                      /\ last.trace[l].op = "read_bytes"
          /\ (ReadableFile /\ f.size = max_read_size)
             => /\ last.result.success
                /\ b64decode(Val(last.result.data).base64_data) = f.content
          /\ (Len(Get(last.params, "path", <<>>)) > 0 /\ ~f.exists)
             => /\ ~last.result.success
                /\ last.result.error.text = "File not found: {}"
          /\ (Len(Get(last.params, "path", <<>>)) > 0 /\ f.exists /\ f.is_file
                /\ f.stat_ok /\ f.size > max_read_size)
             => /\ ~last.result.success
                /\ last.result.error.text =
                      "File is too large to read safely (size={} bytes, limit={} bytes)"
          /\ ~last.result.success
             => DOMAIN last.result = {"success", "error"}

C18_Witness ==
    /\ last.name = "get_bytes"
    /\ last.env.fs.size = max_read_size + 1
    /\ last.env.fs.read_ok
    /\ ~last.result.success
    /\ \A i \in Ops(last.trace, "fs") : last.trace[i].op # "read_bytes"
    /\ Ops(last.trace, "fs") # {}

----------------------------------------------------------------------------
(* utils/vision.py: VisionEngine.find_template on the score surface that   *)
(* cv2.matchTemplate returns. Scores and thresholds are in hundredths; the *)
(* surface is a sequence of rows, coordinates count from 0 as in numpy.    *)

GridW == 2          \* columns of the score surface
GridH == 2          \* rows of the score surface

Abs(n) == IF n < 0 THEN 0 - n ELSE n

\* np.where with a strict comparison (result > confidence)
RECURSIVE where_strict(_, _, _)
where_strict(result, confidence, k) ==
    LET cols == Len(result[1])
        x == k % cols
        y == k \div cols
    IN  IF k >= Len(result) * cols THEN <<>>
        ELSE (IF result[y + 1][x + 1] > confidence THEN << <<x, y>> >> ELSE <<>>)
             \o where_strict(result, confidence, k + 1)

\* list(zip(*np.where(result >= confidence)[::-1])): the (x, y) of every
\* coordinate at or above the threshold, row by row, left to right in a row;
\* k is the position the scan has reached
RECURSIVE where(_, _, _)
where(result, confidence, k) ==
    LET cols == Len(result[1])
        x == k % cols
        y == k \div cols
    IN  IF k >= Len(result) * cols THEN <<>>
        ELSE (IF result[y + 1][x + 1] >= confidence THEN << <<x, y>> >> ELSE <<>>)
             \o where(result, confidence, k + 1)

\* is_duplicate with "or" for "and": close in one direction is enough
is_duplicate_either(loc, processed_points, w, h) ==
    \E i \in DOMAIN processed_points :
        \/ 2 * Abs(loc[1] - processed_points[i][1]) < w
        \/ 2 * Abs(loc[2] - processed_points[i][2]) < h

\* abs(x - px) < w/2 and abs(y - py) < h/2 for some processed point
is_duplicate(loc, processed_points, w, h) ==
    \E i \in DOMAIN processed_points :
        /\ 2 * Abs(loc[1] - processed_points[i][1]) < w
        /\ 2 * Abs(loc[2] - processed_points[i][2]) < h

\* the loop over locations: the points that are kept, in scan order
RECURSIVE suppress(_, _, _, _, _)
suppress(locations, i, processed_points, w, h) ==
    IF i > Len(locations) THEN processed_points
    ELSE suppress(locations, i + 1,
                  IF is_duplicate(locations[i], processed_points, w, h)
                  THEN processed_points
                  ELSE Append(processed_points, locations[i]),
                  w, h)

\* the dict appended for a kept point; int(x + w/2) truncates
MatchAt(result, loc, w, h) ==
    [center_x |-> (2 * loc[1] + w) \div 2,
     center_y |-> (2 * loc[2] + h) \div 2,
     x |-> loc[1], y |-> loc[2], w |-> w, h |-> h,
     confidence |-> result[loc[2] + 1][loc[1] + 1]]

\* one insertion of a sort that puts equal keys in reverse order (not stable)
insert_desc_unstable(sorted, m) ==
    LET before == {i \in DOMAIN sorted : sorted[i].confidence > m.confidence}
        n == Cardinality(before)
    IN  SubSeq(sorted, 1, n) \o <<m>> \o SubSeq(sorted, n + 1, Len(sorted))

\* one insertion of list.sort(key = confidence, reverse = True): the sort is
\* stable, so m goes behind every element whose confidence is not smaller
insert_desc(sorted, m) ==
    LET before == {i \in DOMAIN sorted : sorted[i].confidence >= m.confidence}
        n == Cardinality(before)
    IN  SubSeq(sorted, 1, n) \o <<m>> \o SubSeq(sorted, n + 1, Len(sorted))

\* matches.sort(key=lambda m: m["confidence"], reverse=True)
RECURSIVE sort_desc(_, _, _)
sort_desc(matches, i, sorted) ==
    IF i > Len(matches) THEN sorted
    ELSE sort_desc(matches, i + 1, insert_desc(sorted, matches[i]))

\* VisionEngine.find_template, from the score surface on; w and h are the
\* template's width and height
find_template(result, w, h, confidence) ==
    LET locations == where(result, confidence, 0)
        kept == suppress(locations, 1, <<>>, w, h)
        matches == [i \in 1..Len(kept) |-> MatchAt(result, kept[i], w, h)]
    IN  sort_desc(matches, 1, <<>>)

Scores == {70, 80, 95}
Thresholds == {80, 95}
TemplateShapes == {<<1, 1>>, <<3, 2>>}
Surfaces == [1..GridH -> [1..GridW -> Scores]]

InitVision ==
    /\ history = <<>>
    /\ max_history = DefaultMaxHistory
    /\ logged = <<>>
    /\ recent = <<>>
    /\ clock = 0
    /\ allowed_launch_targets = {}
    /\ ai_client = FALSE
    /\ keyring = EmptyDict
    /\ data_file = EmptyDict
    /\ ncalls = 0
    /\ pc = <<>>
    /\ \E result \in Surfaces, shape \in TemplateShapes, confidence \in Thresholds :
          last = [NoCall EXCEPT !.params = [result |-> result, w |-> shape[1],
                                            h |-> shape[2], confidence |-> confidence]]

FindTemplate ==
    /\ ncalls = 0
    /\ ncalls' = 1
    /\ pc' = pc
    /\ last' = [last EXCEPT !.name = "find_template",
                            !.result = find_template(last.params.result, last.params.w,
                                                     last.params.h, last.params.confidence),
                            !.returned = TRUE]
    /\ UNCHANGED <<history, max_history, logged, recent, clock, allowed_launch_targets,
                   ai_client, keyring, data_file>>

NextVision == FindTemplate

SpecVision == InitVision /\ [][NextVision]_vars

\* the coordinates of the surface that score at or above the threshold
AtOrAbove(result, confidence) ==
    {loc \in (0..(Len(result[1]) - 1)) \X (0..(Len(result) - 1)) :
        result[loc[2] + 1][loc[1] + 1] >= confidence}

\* C19: find_template returns matches only at coordinates scoring at or above
\* the threshold; none when there is no such coordinate; and for a single
\* such coordinate (x, y) exactly one match with that x and y, the template's
\* w and h, the center (x + w/2, y + h/2) truncated, and the score at (x, y).
C19_MatchesAtOrAboveThreshold ==
    last.name = "find_template"
    => \A above \in {AtOrAbove(last.params.result, last.params.confidence)} :
          /\ \A i \in DOMAIN last.result :
                <<last.result[i].x, last.result[i].y>> \in above
          /\ above = {} => last.result = <<>>
          /\ \A loc \in above :
                above = {loc}
                => /\ Len(last.result) = 1
                   /\ \A m \in {last.result[1]} :
                         /\ m.x = loc[1] /\ m.y = loc[2]
                         /\ m.w = last.params.w /\ m.h = last.params.h
                         /\ 2 * m.center_x <= 2 * loc[1] + last.params.w
                         /\ 2 * loc[1] + last.params.w < 2 * m.center_x + 2
                         /\ 2 * m.center_y <= 2 * loc[2] + last.params.h
                         /\ 2 * loc[2] + last.params.h < 2 * m.center_y + 2
                         /\ m.confidence = last.params.result[loc[2] + 1][loc[1] + 1]
                         /\ DOMAIN m = {"center_x", "center_y", "x", "y", "w", "h",
                                        "confidence"}

C19_Witness ==
    /\ last.name = "find_template"
    /\ last.params.result = <<<<70, 70>>, <<80, 70>>>>
    /\ last.params.w = 3
    /\ last.params.confidence = 80
    /\ Len(last.result) = 1
    /\ last.result[1].y = 1
    /\ last.result[1].center_x = 1

\* C20: find_template returns its matches in order of non-increasing
\* confidence, and matches of equal confidence in scan order (row by row from
\* the top, left to right within a row).
C20_SortedStable ==
    last.name = "find_template"
    => \A i, j \in DOMAIN last.result :
          i < j
          => /\ last.result[i].confidence >= last.result[j].confidence
             /\ last.result[i].confidence = last.result[j].confidence
                => \/ last.result[i].y < last.result[j].y
                   \/ /\ last.result[i].y = last.result[j].y
                      /\ last.result[i].x < last.result[j].x

C20_Witness ==
    /\ last.name = "find_template"
    /\ last.params.w = 1
    /\ Len(last.result) = 3
    /\ last.result[1].confidence = 95
    /\ last.result[1].y = 1
    /\ last.result[2].confidence = 80
    /\ last.result[3].confidence = 80
    /\ last.result[2].y = 0

----------------------------------------------------------------------------
(* utils/security.py: a bare CredentialManager, each call served by the    *)
(* backends that are available at the time of the call.                    *)

MaxCredCalls == 3   \* calls made on the credential manager

CredIds == {SudoPass, Pin}
CredValues == {Secret, Hi, <<>>}
CredEnvs ==
    {[DefaultEnv EXCEPT !.keyring_ok = b[1], !.file_ok = b[2]] : b \in BOOLEAN \X BOOLEAN}

InitCred ==
    /\ history = <<>>
    /\ max_history = DefaultMaxHistory
    /\ logged = <<>>
    /\ recent = <<>>
    /\ clock = 0
    /\ allowed_launch_targets = {}
    /\ ai_client = FALSE
    /\ keyring = EmptyDict
    /\ data_file = EmptyDict
    /\ last = NoCall
    /\ ncalls = 0
    /\ pc = <<>>

SetCredential ==
    /\ ncalls < MaxCredCalls
    /\ \E id \in CredIds, value \in CredValues, env \in CredEnvs :
          \E set \in {set_credential(env, id, value)} :
             /\ keyring' = set.keyring
             /\ data_file' = set.data_file
             /\ last' = [name |-> "set_credential", params |-> [id |-> id, value |-> value],
                         raised |-> "", result |-> set.ok, trace |-> <<>>,
                         returned |-> TRUE, env |-> env]
    /\ ncalls' = ncalls + 1
    /\ pc' = pc
    /\ UNCHANGED <<history, max_history, logged, recent, clock, allowed_launch_targets,
                   ai_client>>

GetCredential ==
    /\ ncalls < MaxCredCalls
    /\ \E id \in CredIds, env \in CredEnvs :
          last' = [name |-> "get_credential", params |-> [id |-> id],
                   raised |-> "", result |-> get_credential(env, id), trace |-> <<>>,
                   returned |-> TRUE, env |-> env]
    /\ ncalls' = ncalls + 1
    /\ pc' = pc
    /\ UNCHANGED <<history, max_history, logged, recent, clock, allowed_launch_targets,
                   ai_client, keyring, data_file>>

NextCred == SetCredential \/ GetCredential

SpecCred == InitCred /\ [][NextCred]_vars

\* C21: a get_credential(id) that follows a set_credential(id, v) which
\* returned true returns v, whether or not the keyring is available in either
\* call (the encrypted file being usable throughout); and get_credential of
\* an id that neither backend has ever stored returns None.
C21_GetReturnsLastSet ==
    /\ [][(/\ last.name = "set_credential"
           /\ last.result = TRUE
           /\ last.env.file_ok
           /\ last'.name = "get_credential"
           /\ last'.env.file_ok
           /\ last'.params.id = last.params.id)
          => last'.result = Some(last.params.value)]_vars
    /\ [](/\ last.name = "get_credential"
          /\ last.params.id \notin DOMAIN keyring \cup DOMAIN data_file
          => last.result = None)

\* C22: a type_text call that reaches the desktop controller hands it the
\* enter flag: with enter = true the controller is told to press Enter after
\* the text, with enter false or absent it is not.
C22_TypeTextPassesEnter ==
    last.name = "type_text"
    => \A i \in DesktopOps(last.trace, "type_text") :
          IF Get(last.params, "enter", FALSE) = TRUE
          THEN last.trace[i].enter = Some(TRUE)
          ELSE last.trace[i].enter \in {None, Some(FALSE)}

----------------------------------------------------------------------------
(* utils/context.py: log_action called by several threads on one           *)
(* ContextTracker (server/app.py shares one ToolExecutor). log_action      *)
(* holds no lock, so a thread switch can fall between its statements: the  *)
(* append (line 38), the length check (line 41) and the pop (line 42).     *)
(* get_recent_history takes its slice in one step.                         *)

MaxThreads == 3     \* concurrent log_action calls

Threads == 1..MaxThreads

\* what thread t logs: its own call, so that entries can be told apart
ThreadInput(t) ==
    [tool_name |-> IF t % 2 = 1 THEN "click" ELSE "scroll",
     params |-> [x |-> t],
     result |-> IF t % 3 = 0 THEN Fail(Msg("failed", <<>>))
                ELSE [success |-> TRUE, message |-> Msg("done", <<>>)]]

InitConc ==
    /\ history = <<>>
    /\ max_history \in 1..MaxCap
    /\ logged = <<>>
    /\ recent = <<>>
    /\ clock = 0
    /\ allowed_launch_targets = {}
    /\ ai_client = FALSE
    /\ keyring = EmptyDict
    /\ data_file = EmptyDict
    /\ last = NoCall
    /\ ncalls = 0
    /\ pc = [t \in Threads |-> "start"]

\* lines 27-38: build the entry and append it
ConcAppend(t) ==
    /\ pc[t] = "start"
    /\ \E e \in {ThreadInput(t)} :
          /\ history' = Append(history, NewLog(clock, e.tool_name, e.params, e.result))
          /\ logged' = Append(logged, NewLog(clock, e.tool_name, e.params, e.result))
    /\ pc' = [pc EXCEPT ![t] = "check"]
    /\ UNCHANGED <<max_history, recent, clock, allowed_launch_targets, ai_client,
                   keyring, data_file, last, ncalls>>

\* line 41: if len(self._history) > self.max_history
ConcCheck(t) ==
    /\ pc[t] = "check"
    /\ pc' = [pc EXCEPT ![t] = IF Len(history) > max_history THEN "pop" ELSE "done"]
    /\ UNCHANGED <<history, max_history, logged, recent, clock, allowed_launch_targets,
                   ai_client, keyring, data_file, last, ncalls>>

\* line 42: self._history.pop(0); IndexError on an empty list
ConcPop(t) ==
    /\ pc[t] = "pop"
    /\ history' = IF Len(history) > 0 THEN Tail(history) ELSE history
    /\ pc' = [pc EXCEPT ![t] = IF Len(history) > 0 THEN "done" ELSE "IndexError"]
    /\ UNCHANGED <<max_history, logged, recent, clock, allowed_launch_targets,
                   ai_client, keyring, data_file, last, ncalls>>

\* get_recent_history called by another thread, at any moment
ConcRead ==
    /\ ncalls < MaxLogs
    /\ \E limit \in (0 - MaxLimit)..(MaxLimit + 1) :
          /\ recent' = get_recent_history(history, limit)
          /\ last' = [NoCall EXCEPT !.name = "get_recent_history",
                                    !.params = [limit |-> limit], !.returned = TRUE]
    /\ ncalls' = ncalls + 1
    /\ UNCHANGED <<history, max_history, logged, clock, allowed_launch_targets,
                   ai_client, keyring, data_file, pc>>

NextConc ==
    \/ \E t \in Threads : ConcAppend(t)
    \/ \E t \in Threads : ConcCheck(t)
    \/ \E t \in Threads : ConcPop(t)
    \/ ConcRead

SpecConc == InitConc /\ [][NextConc]_vars

\* C23: with log_action calls running concurrently, no get_recent_history
\* call, whatever its limit, returns more than max_history entries.
C23_ReaderNeverSeesOverfullBuffer ==
    last.name = "get_recent_history" => Len(recent) <= max_history

\* C30: once every concurrent log_action call has finished, the buffer holds
\* min(number of calls, max_history) entries; and no step removes an entry
\* from a buffer that holds max_history or fewer entries.
C30_ConcurrentLogsLeaveMinKN ==
    /\ []((\A t \in Threads : pc[t] = "done")
          => Len(history) = Min(MaxThreads, max_history))
    /\ [][Len(history') < Len(history) => Len(history) > max_history]_vars

----------------------------------------------------------------------------
(* Aliasing between the caller and the history. execute hands the tracker  *)
(* a shallow copy of params (handlers.py:37) and the very dict it returns  *)
(* (handlers.py:41-43); log_action stores both by reference                *)
(* (context.py:30-36); get_recent_history returns asdict copies            *)
(* (context.py:50). So the newest entry's result is the object the caller  *)
(* received from the last execute that returned.                           *)

MaxAliasCalls == 2  \* execute / get_recent_history calls of the caller

\* d[key] = value on a Python dict
SetItem(d, key, value) == (key :> value) @@ d

AliasExecute ==
    /\ ncalls < MaxAliasCalls
    /\ \E c \in AuditCalls : Execute(c.name, c.params, c.env)

AliasGetRecent ==
    /\ ncalls < MaxAliasCalls
    /\ \E limit \in 1..MaxLimit :
          /\ recent' = get_recent_history(history, limit)
          /\ last' = [NoCall EXCEPT !.name = "get_recent_history",
                                    !.params = [limit |-> limit], !.returned = TRUE]
    /\ ncalls' = ncalls + 1
    /\ UNCHANGED <<history, max_history, logged, clock, allowed_launch_targets,
                   ai_client, keyring, data_file, pc>>

\* the caller assigns to a key of the params dict it passed to execute: the
\* tracker holds a copy, the history is untouched
MutateParams ==
    /\ last.returned
    /\ last.name \in ToolNames
    /\ \E value \in {Mkfs} :
          /\ SetItem(last.params, "text", value) # last.params
          /\ last' = [last EXCEPT !.params = SetItem(last.params, "text", value)]
    /\ UNCHANGED <<history, max_history, logged, recent, clock, allowed_launch_targets,
                   ai_client, keyring, data_file, ncalls, pc>>

\* the caller assigns to a key of the dict execute returned: the newest entry
\* holds that same dict
MutateResult ==
    /\ last.returned
    /\ last.name \in ToolNames
    /\ Len(history) > 0
    /\ \E value \in {FALSE} :
          /\ SetItem(last.result, "success", value) # last.result
          /\ last' = [last EXCEPT !.result = SetItem(last.result, "success", value)]
          /\ history' = [history EXCEPT ![Len(history)].result =
                                            SetItem(last.result, "success", value)]
    /\ UNCHANGED <<max_history, logged, recent, clock, allowed_launch_targets,
                   ai_client, keyring, data_file, ncalls, pc>>

\* the caller assigns to a field of an element of the sequence
\* get_recent_history returned: the elements are copies
MutateRecent ==
    /\ Len(recent) > 0
    /\ recent[1].tool_name # "changed"
    /\ recent' = [recent EXCEPT ![1].tool_name = "changed"]
    /\ UNCHANGED <<history, max_history, logged, clock, allowed_launch_targets,
                   ai_client, keyring, data_file, last, ncalls, pc>>

NextAlias ==
    AliasExecute \/ AliasGetRecent \/ MutateParams \/ MutateResult \/ MutateRecent

SpecAlias == Init /\ [][NextAlias]_vars

\* C24: an entry that stays in the buffer keeps its timestamp, tool name,
\* params, result and success through every step: later calls, and the
\* caller's assignments to the params it passed, to the result it received
\* and to a sequence get_recent_history returned.
C24_EntriesNeverChange ==
    [][\A i \in DOMAIN history : \A j \in DOMAIN history' :
          Len(history') - j = (Len(history) - i) + (Len(logged') - Len(logged))
          => history'[j] = history[i]]_vars

----------------------------------------------------------------------------
(* utils/context.py: log_action given results of every shape: a dict with  *)
(* a boolean success, with a success of another type, without success, and *)
(* a value that is not a dict.                                             *)

\* values of result["success"] that are not booleans: "yes", "", ["no"]
NonBoolSuccess == {<<"y","e","s">>, <<>>, <<<<"n","o">>>>}

\* results that are not dicts: the str "ok", a list of two strs
NonDictResults == {<<"o","k">>, <<<<"a">>, <<"b">>>>}

InitLog ==
    /\ history = <<>>
    /\ max_history \in 1..MaxCap
    /\ logged = <<>>
    /\ recent = <<>>
    /\ clock = 0
    /\ allowed_launch_targets = {}
    /\ ai_client = FALSE
    /\ keyring = EmptyDict
    /\ data_file = EmptyDict
    /\ last = NoCall
    /\ ncalls = 0
    /\ pc = <<>>

\* one log_action("click", {}, result) call
Log(result) ==
    /\ ncalls < MaxLogs
    /\ history' = log_action(history, max_history, clock, "click", EmptyDict, result)
    /\ logged' = Append(logged, NewLog(clock, "click", EmptyDict, result))
    /\ last' = [NoCall EXCEPT !.name = "log_action", !.result = result, !.returned = TRUE]
    /\ ncalls' = ncalls + 1
    /\ UNCHANGED <<max_history, recent, clock, allowed_launch_targets, ai_client,
                   keyring, data_file, pc>>

LogBoolSuccess == \E e \in LogInputs : Log(e.result)
LogIntSuccess == \E v \in {0, 1} : Log([success |-> v, message |-> Msg("done", <<>>)])
LogOtherSuccess == \E v \in NonBoolSuccess : Log([success |-> v])
LogNoSuccess == \E m \in {Msg("done", <<>>)} : Log([message |-> m])
LogNonDict == \E r \in NonDictResults : Log(r)

NextLog == LogBoolSuccess \/ LogIntSuccess \/ LogOtherSuccess \/ LogNoSuccess \/ LogNonDict

SpecLog == InitLog /\ [][NextLog]_vars

\* C25: the entry log_action appends has success = true only if the result
\* is a dict whose success field is the boolean true; if the field is
\* missing or not a boolean, or the result is not a dict, the entry has
\* success = false.
C25_SuccessIsBooleanOfResult ==
    last.name = "log_action"
    => \A e \in {history[Len(history)]} :
          /\ isinstance_bool(e.success)
          /\ IF ~isinstance_dict(e.result) THEN e.success = FALSE
             ELSE IF "success" \notin DOMAIN e.result THEN e.success = FALSE
             ELSE IF ~isinstance_bool(e.result.success) THEN e.success = FALSE
             ELSE e.success = e.result.success

----------------------------------------------------------------------------
(* tools/handlers.py: the loop of _wait_for_image, one iteration per step. *)
(* clock counts half seconds (the length of the sleep); pc holds           *)
(* <<start_time>> while the loop runs and last.polls counts the            *)
(* _find_image calls made so far.                                          *)

MaxTimeout == 2     \* largest timeout (seconds) passed to wait_for_image

WaitCalls ==
    { Call("wait_for_image", p, [DefaultEnv EXCEPT !.polls = q]) :
      p \in {[template_path |-> TemplatePath, timeout |-> t] : t \in (0 - 1)..MaxTimeout}
            \cup {[timeout |-> t] : t \in (0 - 1)..MaxTimeout},
      q \in {<<PollTwo>>, <<PollNone, PollOne>>, <<PollSlow, PollOne>>, <<PollNone>>,
             <<PollError, PollBlind>>, <<PollStub, PollSlow>>} }

\* the loop condition with <= for < (time.time() - start_time <= timeout)
InTime_inclusive(start_time, now, timeout) == now - start_time <= 2 * timeout

\* time.time() - start_time < timeout, in half seconds
InTime(start_time, now, timeout) == now - start_time < 2 * timeout

InitWait ==
    /\ history = <<>>
    /\ max_history = DefaultMaxHistory
    /\ logged = <<>>
    /\ recent = <<>>
    /\ clock = 0
    /\ allowed_launch_targets = {}
    /\ ai_client = FALSE
    /\ keyring = EmptyDict
    /\ data_file = EmptyDict
    /\ last = NoCall
    /\ ncalls = 0
    /\ pc = <<>>

\* lines 278-282: read the parameters, take the start time
WaitBegin ==
    /\ ncalls = 0
    /\ ncalls' = 1
    /\ \E c \in WaitCalls :
          last' = [name |-> c.name, params |-> c.params, raised |-> "",
                   result |-> EmptyDict, trace |-> <<>>, returned |-> FALSE,
                   env |-> c.env, polls |-> 0]
    /\ pc' = <<clock>>
    /\ UNCHANGED <<history, max_history, logged, recent, clock, allowed_launch_targets,
                   ai_client, keyring, data_file>>

\* lines 283-294: the condition holds; one _find_image poll, then either the
\* return of the best match or the sleep
WaitPoll ==
    /\ Len(pc) = 1
    /\ InTime(pc[1], clock, Get(last.params, "timeout", DefaultTimeout))
    /\ \E poll \in {PollAt(last.env, last.polls + 1)} :
       \E r \in {_find_image(IF "template_path" \in DOMAIN last.params
                             THEN [template_path |-> last.params["template_path"]]
                             ELSE EmptyDict, poll)} :
          IF Get(r.result, "success", FALSE) /\ Len(Get(r.result, "matches", <<>>)) > 0
          THEN /\ last' = [last EXCEPT !.polls = @ + 1, !.trace = @ \o r.trace,
                                       !.returned = TRUE,
                                       !.result = [success |-> TRUE,
                                                   message |-> Msg("Image found", <<>>),
                                                   match |-> r.result.matches[1]]]
               /\ clock' = clock + poll.dur
               /\ pc' = <<>>
          ELSE /\ last' = [last EXCEPT !.polls = @ + 1, !.trace = @ \o r.trace]
               /\ clock' = clock + poll.dur + 1
               /\ pc' = pc
    /\ UNCHANGED <<history, max_history, logged, recent, allowed_launch_targets,
                   ai_client, keyring, data_file, ncalls>>

\* lines 283, 297: the condition fails; return the timeout message
WaitTimeout ==
    /\ Len(pc) = 1
    /\ ~InTime(pc[1], clock, Get(last.params, "timeout", DefaultTimeout))
    /\ last' = [last EXCEPT !.returned = TRUE,
                            !.result = [success |-> FALSE,
                                        message |-> Msg("Timeout waiting for image after {}s",
                                                        <<>>)]]
    /\ pc' = <<>>
    /\ UNCHANGED <<history, max_history, logged, recent, clock, allowed_launch_targets,
                   ai_client, keyring, data_file, ncalls>>

NextWait == WaitBegin \/ WaitPoll \/ WaitTimeout

SpecWait == InitWait /\ [][NextWait]_vars

\* a started call keeps running: the thread executing it is scheduled
SpecWaitLive == SpecWait /\ WF_vars(NextWait)

\* C26: every wait_for_image call returns; it polls only while the elapsed
\* time is below the timeout, so not at all for a timeout <= 0 and at most
\* once per half second of the timeout otherwise, whatever the polls find;
\* and at least the half second of the sleep passes with every poll that
\* does not end the call.
C26_WaitForImageTerminates ==
    /\ [](last.name = "wait_for_image"
          => \A timeout \in {Get(last.params, "timeout", DefaultTimeout)} :
                /\ timeout <= 0 => last.polls = 0
                /\ timeout > 0 => last.polls <= 2 * timeout)
    /\ [][(Len(pc) = 1 /\ Len(pc') = 1 /\ last'.polls = last.polls + 1)
          => /\ clock - pc[1] < 2 * Get(last.params, "timeout", DefaultTimeout)
             /\ clock' >= clock + 1]_vars
    /\ (Len(pc) = 1) ~> (Len(pc) = 0 /\ last.returned)

C26_Witness ==
    /\ last.name = "wait_for_image"
    /\ last.returned
    /\ last.env.polls = <<PollError, PollBlind>>
    /\ last.params = [timeout |-> 2]
    /\ last.polls = 4
    /\ last.result.success = FALSE

\* the coordinates a and b lie closer than w/2 horizontally and closer than
\* h/2 vertically
Near(a, b, w, h) == 2 * Abs(a[1] - b[1]) < w /\ 2 * Abs(a[2] - b[2]) < h

\* a comes before b in the scan: row by row, left to right within a row
ScanBefore(a, b) == a[2] < b[2] \/ (a[2] = b[2] /\ a[1] < b[1])

\* C27: no two matches find_template returns lie closer than w/2
\* horizontally and h/2 vertically at once; and every coordinate scoring at or
\* above the threshold is returned or lies that close to a returned
\* coordinate that comes before it in the scan.
C27_SuppressionCoversCandidates ==
    last.name = "find_template"
    => \A returned \in {{<<last.result[i].x, last.result[i].y>> : i \in DOMAIN last.result}} :
          /\ Cardinality(returned) = Len(last.result)
          /\ \A a \in returned : \A b \in returned \ {a} :
                ~Near(a, b, last.params.w, last.params.h)
          /\ \A loc \in AtOrAbove(last.params.result, last.params.confidence) :
                \/ loc \in returned
                \/ \E a \in returned : /\ Near(loc, a, last.params.w, last.params.h)
                                       /\ ScanBefore(a, loc)

C27_Witness ==
    /\ last.name = "find_template"
    /\ last.params.result = <<<<80, 95>>, <<95, 70>>>>
    /\ last.params.w = 3
    /\ last.params.confidence = 80
    /\ Len(last.result) = 2
    /\ \A i \in DOMAIN last.result : last.result[i].x = 0

\* C29: when find_template returns matches, the first one carries the highest
\* score found anywhere on the score surface.
C29_FirstMatchIsGlobalMaximum ==
    (last.name = "find_template" /\ Len(last.result) > 0)
    => \A y \in DOMAIN last.params.result : \A x \in DOMAIN last.params.result[y] :
          last.result[1].confidence >= last.params.result[y][x]

----------------------------------------------------------------------------
(* perceive and reason with a cognition service that answers or fails;     *)
(* env.ai_text is the service's answer, or the text of the exception        *)

MaxAICalls == 2     \* perceive / reason calls per run

ServiceTexts == {DefaultEnv.ai_text, <<"d","o","w","n">>}

AICalls ==
    UNION { { Call("perceive", [instruction |-> Hi],
                   [EnvDesk(d) EXCEPT !.ai_ok = ok, !.ai_text = t]) :
              d \in {ShotOK, ShotStub, DeskFailed}, ok \in BOOLEAN, t \in ServiceTexts },
            { Call("reason", [goal |-> Hi], [DefaultEnv EXCEPT !.ai_ok = ok, !.ai_text = t]) :
              ok \in BOOLEAN, t \in ServiceTexts } }

AICall ==
    /\ ncalls < MaxAICalls
    /\ \E c \in AICalls : ExecuteIn(c.name, c.params, c.env)

NextAI == AICall

SpecAI == Init /\ [][NextAI]_vars

\* C28: with an AI client configured, a perceive call whose screenshot
\* delivered image data and a reason call return success = true with a text
\* as analysis / plan also when the cognition service fails; the text then is
\* the description of the error ("Error analyzing image: ..." /
\* "Error planning action: ..."), and nothing is raised.
C28_ServiceFailureIsSoft ==
    /\ (last.name = "perceive" /\ ai_client /\ last.env.desk[1].success
        /\ ~NoImageData(last.env.desk[1]))
       => /\ last.returned
          /\ last.result.success = TRUE
          /\ DOMAIN last.result = {"success", "message", "analysis"}
          /\ last.result.analysis.arg = last.env.ai_text
          /\ last.result.analysis.text =
                IF last.env.ai_ok THEN "{}" ELSE "Error analyzing image: {}"
    /\ (last.name = "reason" /\ ai_client)
       => /\ last.returned
          /\ last.result.success = TRUE
          /\ DOMAIN last.result = {"success", "message", "plan"}
          /\ last.result.plan.arg = last.env.ai_text
          /\ last.result.plan.text =
                IF last.env.ai_ok THEN "{}" ELSE "Error planning action: {}"

C28_Witness ==
    /\ last.name = "perceive"
    /\ ai_client
    /\ ~last.env.ai_ok
    /\ last.env.ai_text = <<"d","o","w","n">>
    /\ last.result.success = TRUE
    /\ last.result.analysis = Msg("Error analyzing image: {}", <<"d","o","w","n">>)

====
